---- MODULE Spec2Model ----
(***************************************************************************)
(* FlexiGraph: the mutation + validation engine (FlexiGraphService,        *)
(* ValidationService, graph-algorithms) and the history engine             *)
(* (HistoryService) of ngx-flexigraph, as a state machine.                 *)
(*                                                                         *)
(* A node is a record [id, parentIds, data]; the node collection is the    *)
(* array the service keeps in its _nodes signal, in array order.  label,   *)
(* position, locked and classes are carried through every operation the    *)
(* same way data is, so data stands for the payload fields of a node.      *)
(***************************************************************************)
EXTENDS Integers, Sequences, FiniteSets, TLC

VARIABLES
  nodes,      \* FlexiGraphService._nodes
  undoStack,  \* HistoryService._undoStack
  redoStack,  \* HistoryService._redoStack
  isDirty,    \* HistoryService._isDirty
  config,     \* FlexiGraphService._config (the fields the engines read)
  pending,    \* addParent / setParents calls suspended at an await
  last,       \* the last completed call: what it was and what it returned
  steps,      \* number of calls made so far
  reconfigs,  \* number of updateConfig calls made so far
  collapsedNodeIds, \* CollapseService._collapsedNodeIds
  hiddenNodeIds,    \* CollapseService._hiddenNodeIds
  collapseStates,   \* CollapseService._collapseStates: id -> hidden descendants
  inputNodes,       \* FlexiGraphComponent.nodes, the [nodes] input of the host
  cy,               \* FlexiGraphComponent.cy: the nodes of the view, their
                    \* parent links, positions and locks
  positionCache,    \* StableLayoutService._positionCache
  isFirstLayout,    \* StableLayoutService._isFirstLayout
  cacheTimers,      \* caching timers of layout passes that have not fired
                    \* yet: how many of each kind
  pass              \* the last layout pass: what it was given

collapseVars == <<collapsedNodeIds, hiddenNodeIds, collapseStates>>

viewVars == <<cy, positionCache, isFirstLayout, cacheTimers, pass>>

editorVars == <<collapseVars, inputNodes, viewVars>>

vars == <<nodes, undoStack, redoStack, isDirty, config, pending, last, steps,
          reconfigs, editorVars>>

----------------------------------------------------------------------------
(* Bounds of the model *)

MaxOps == 2        \* calls per behaviour of Spec
MaxPolicyOps == 2  \* calls per behaviour of SpecPolicy
MaxHistoryOps == 4 \* calls per behaviour of SpecHistory and SpecReconfig
MaxNodes == 4      \* addNode is not called on a larger collection
MaxPending == 2    \* calls in flight at once
MaxParentList == 2 \* length of a caller-supplied parent list
MaxReconfigs == 1  \* updateConfig calls per behaviour
MaxAsyncOps == 3   \* calls per behaviour of SpecAsync
MaxQueries == 2    \* validation queries per behaviour of SpecValidate
MaxCollapseOps == 3 \* calls per behaviour of SpecCollapse
MaxEditorOps == 3   \* handler runs per behaviour of SpecEditor
MaxLayoutOps == 2   \* calls per behaviour of SpecLayout
MaxRestoreList == 2 \* collapsed nodes in a state given to restoreCollapseState
MaxTraversalParents == 2 \* parents of a node in a collection given to a traversal

(* Program constants *)

DefaultMaxStackSize == 50
NewNodeOffsetX == 150  \* a new node is put this far to the right of its parent
NewRootOffsetY == 50   \* a new root node is put this far below the middle

----------------------------------------------------------------------------
(* Small helpers over arrays *)

Includes(seq, x) == \E i \in DOMAIN seq : seq[i] = x

Max(a, b) == IF a >= b THEN a ELSE b

RECURSIVE Flatten(_)
Flatten(seqs) ==
  IF seqs = <<>> THEN <<>> ELSE Head(seqs) \o Flatten(Tail(seqs))

RECURSIVE MaxOf(_)
MaxOf(seq) ==
  IF seq = <<>> THEN 0 ELSE Max(Head(seq), MaxOf(Tail(seq)))

(* Array.prototype.find(n => n.id === id): the first match *)
HasNode(ns, id) == \E i \in DOMAIN ns : ns[i].id = id

GetNode(ns, id) ==
  ns[CHOOSE i \in DOMAIN ns :
       ns[i].id = id /\ \A j \in DOMAIN ns : ns[j].id = id => i <= j]

(* new Map(nodes.map(n => [n.id, n])).get(id): the last match *)
NodeMapGet(ns, id) ==
  ns[CHOOSE i \in DOMAIN ns :
       ns[i].id = id /\ \A j \in DOMAIN ns : ns[j].id = id => j <= i]

----------------------------------------------------------------------------
(* graph-algorithms *)

(* JSON.parse(JSON.stringify(x)) on a payload: a plain JSON value comes    *)
(* back as itself, a Date comes back as its ISO string.                    *)
JsonValue(d) == IF d = "date" THEN "isoString" ELSE d

deepCloneNodes(ns) ==
  [i \in DOMAIN ns |-> [ns[i] EXCEPT !.data = JsonValue(ns[i].data)]]

(* childrenMap.get(id) || []: one entry per occurrence of id in a          *)
(* parentIds list, in node order                                           *)
ChildrenOf(ns, id) ==
  LET occ(n) == Flatten([k \in DOMAIN n.parentIds |->
                           IF n.parentIds[k] = id THEN <<n.id>> ELSE <<>>])
  IN  Flatten([i \in DOMAIN ns |-> occ(ns[i])])

RECURSIVE CycleSearch(_, _, _, _)
CycleSearch(ns, sourceId, queue, visited) ==
  IF queue = <<>> THEN FALSE
  ELSE LET currentId == Head(queue)
           rest == Tail(queue)
       IN  IF currentId = sourceId THEN TRUE
           ELSE IF currentId \in visited
                THEN CycleSearch(ns, sourceId, rest, visited)
                ELSE LET seen == visited \cup {currentId}
                         fresh(c) == c \notin seen
                     IN  CycleSearch(ns, sourceId,
                           rest \o SelectSeq(ChildrenOf(ns, currentId), fresh),
                           seen)

(* the search started at the source and looking for the target *)
wouldCreateCycle_FromSource(ns, sourceId, targetId) ==
  IF sourceId = targetId THEN TRUE
  ELSE CycleSearch(ns, targetId, <<sourceId>>, {})

wouldCreateCycle(ns, sourceId, targetId) ==
  IF sourceId = targetId THEN TRUE
  ELSE CycleSearch(ns, sourceId, <<targetId>>, {})

(* getNodeDepth: recursive max over parents.  The recursion of the source  *)
(* does not end on a cycle (the cache is written after the recursive       *)
(* calls); Overflow stands for the RangeError it ends with.                *)
Overflow == 0 - 1

(* Math.min in the place of Math.max: the shortest path *)
MaxOrOverflow_Min(seq) ==
  IF Includes(seq, Overflow) THEN Overflow
  ELSE CHOOSE m \in {seq[k] : k \in DOMAIN seq} :
         \A k \in DOMAIN seq : m <= seq[k]

(* Math.max over the recursive results; an overflow below propagates *)
MaxOrOverflow(seq) == IF Includes(seq, Overflow) THEN Overflow ELSE MaxOf(seq)

RECURSIVE computeDepth(_, _, _)
computeDepth(ns, id, path) ==
  IF id \in path THEN Overflow
  ELSE IF ~HasNode(ns, id) \/ Len(NodeMapGet(ns, id).parentIds) = 0 THEN 0
  ELSE LET pids == NodeMapGet(ns, id).parentIds
           m == MaxOrOverflow([k \in DOMAIN pids |->
                                computeDepth(ns, pids[k], path \cup {id})])
       IN  IF m = Overflow THEN Overflow ELSE m + 1

getNodeDepth(ns, nodeId) == computeDepth(ns, nodeId, {})

RECURSIVE computeHeight(_, _, _)
computeHeight(ns, id, path) ==
  IF id \in path THEN Overflow
  ELSE IF Len(ChildrenOf(ns, id)) = 0 THEN 0
  ELSE LET kids == ChildrenOf(ns, id)
           m == MaxOrOverflow([k \in DOMAIN kids |->
                                computeHeight(ns, kids[k], path \cup {id})])
       IN  IF m = Overflow THEN Overflow ELSE m + 1

getNodeHeight(ns, nodeId) == computeHeight(ns, nodeId, {})

(* topologicalSort.  st = [inDegree, queue, sorted]: the in-degree map     *)
(* (an id without an entry reads as 0), the queue of ids and the nodes     *)
(* pushed on sorted so far.                                                *)
inDegreeOf(ns) ==
  [id \in {ns[i].id : i \in DOMAIN ns} |-> Len(NodeMapGet(ns, id).parentIds)]

(* the forEach body that queues every child at once, whatever its degree *)
childStep_PushAlways(st, childId) ==
  LET newDegree == (IF childId \in DOMAIN st.inDegree
                    THEN st.inDegree[childId] ELSE 0) - 1
  IN  [st EXCEPT !.inDegree = [id \in DOMAIN st.inDegree \cup {childId} |->
                                IF id = childId THEN newDegree
                                ELSE st.inDegree[id]],
                 !.queue = Append(st.queue, childId)]

(* children.forEach(childId => ...) body *)
childStep(st, childId) ==
  LET newDegree == (IF childId \in DOMAIN st.inDegree
                    THEN st.inDegree[childId] ELSE 0) - 1
  IN  [st EXCEPT !.inDegree = [id \in DOMAIN st.inDegree \cup {childId} |->
                                IF id = childId THEN newDegree
                                ELSE st.inDegree[id]],
                 !.queue = IF newDegree = 0 THEN Append(st.queue, childId)
                           ELSE st.queue]

RECURSIVE visitChildren(_, _, _)
visitChildren(st, children, k) ==
  IF k > Len(children) THEN st
  ELSE visitChildren(childStep(st, children[k]), children, k + 1)

(* while (queue.length > 0): fuel bounds the rounds of the model; a round  *)
(* takes one id off the queue, and no id is queued more often than it is   *)
(* listed as a child                                                       *)
RECURSIVE sortLoop(_, _, _)
sortLoop(ns, st, fuel) ==
  IF st.queue = <<>> \/ fuel = 0 THEN st.sorted
  ELSE LET currentId == Head(st.queue)
           shifted == [st EXCEPT !.queue = Tail(st.queue),
                                 !.sorted = IF HasNode(ns, currentId)
                                            THEN Append(st.sorted,
                                                   NodeMapGet(ns, currentId))
                                            ELSE st.sorted]
       IN  sortLoop(ns, visitChildren(shifted, ChildrenOf(ns, currentId), 1),
                    fuel - 1)

topologicalSort(ns) ==
  LET isRoot(n) == Len(n.parentIds) = 0
      roots == SelectSeq(ns, isRoot)
  IN  sortLoop(ns, [inDegree |-> inDegreeOf(ns),
                    queue |-> [k \in DOMAIN roots |-> roots[k].id],
                    sorted |-> <<>>],
               Len(ns) + Len(Flatten([i \in DOMAIN ns |-> ns[i].parentIds])) + 1)

isUniqueId(ns, id) == ~\E i \in DOMAIN ns : ns[i].id = id

RECURSIVE generateFrom(_, _)
generateFrom(ns, counter) ==
  LET id == "node-" \o ToString(counter)
  IN  IF isUniqueId(ns, id) THEN id ELSE generateFrom(ns, counter + 1)

generateNodeId(ns) == generateFrom(ns, Len(ns) + 1)

----------------------------------------------------------------------------
(* ValidationService *)

ErrNotFound == "Source or target node not found"
ErrEdgeExists == "Edge already exists"
ErrSelfLoop == "Self-loops are not allowed"
ErrCycle == "Cycle detected"
ErrMaxParents == "Node cannot have more than N parents"
ErrMaxDepth == "This connection would exceed the maximum graph depth of N"
ErrCustomFailed == "Custom validation failed"
ErrCustomThrew == "Custom validation error: Error: rejected"
ErrCustomThrewMoreThan == "Custom validation error: Error: more than one owner"
ErrRange == "RangeError: Maximum call stack size exceeded"
ErrSameNode == "Cannot reparent a node to itself"
ErrNodeNotFound == "Node not found"
ErrCircular == "This connection would create a circular dependency"
NoError == ""

(* config.validation.customValidator is a function the host supplies.     *)
(* The validators of the model accept every edge but those out of node     *)
(* "a"; on those one resolves false, one throws, and one throws an error   *)
(* whose message holds the words "more than".  "none": not configured.     *)
CustomValidators == {"none", "rejectA", "throwA", "throwMoreThanA"}

customValidator(kind, sourceId, targetId) ==
  IF sourceId # "a" THEN "accept"
  ELSE CASE kind = "rejectA" -> "reject"
         [] kind = "throwA" -> "throw"
         [] OTHER -> "throwMoreThan"

Valid == [isValid |-> TRUE, error |-> NoError, threw |-> FALSE]
Invalid(e) == [isValid |-> FALSE, error |-> e, threw |-> FALSE]
(* an exception that leaves validateEdge: the returned promise rejects *)
Thrown(e) == [isValid |-> FALSE, error |-> e, threw |-> TRUE]

(* What a validation call did on its way to its result: checks is the      *)
(* number of the last check it reached (the checks before it were reached  *)
(* in order), calls the number of times it invoked the custom predicate.   *)
Evaluated(k, res) ==
  [isValid |-> res.isValid, error |-> res.error, threw |-> res.threw,
   checks |-> k, calls |-> 0]

Called(k, res) == [Evaluated(k, res) EXCEPT !.calls = 1]

(* the custom validator block, as check number k of its caller *)
CustomCheck(k, cfg, sourceId, targetId) ==
  IF cfg.customValidator = "none" THEN Evaluated(k, Valid)
  ELSE LET cv == customValidator(cfg.customValidator, sourceId, targetId)
       IN  CASE cv = "accept" -> Called(k, Valid)
             [] cv = "reject" -> Called(k, Invalid(ErrCustomFailed))
             [] cv = "throw" -> Called(k, Invalid(ErrCustomThrew))
             [] OTHER -> Called(k, Invalid(ErrCustomThrewMoreThan))

(* the max depth block, as check number k of its caller, and what follows *)
DepthCheck(k, ns, sourceId, targetId, cfg) ==
  IF cfg.maxDepth > 0
  THEN LET parentDepth == getNodeDepth(ns, sourceId)
           childHeight == getNodeHeight(ns, targetId)
       IN  IF parentDepth = Overflow \/ childHeight = Overflow
           THEN Evaluated(k, Thrown(ErrRange))
           ELSE IF parentDepth + 1 + childHeight > cfg.maxDepth
                THEN Evaluated(k, Invalid(ErrMaxDepth))
                ELSE CustomCheck(k + 1, cfg, sourceId, targetId)
  ELSE CustomCheck(k + 1, cfg, sourceId, targetId)

validateEdge_NoCycleCheck(ns, sourceId, targetId, cfg) ==
  IF ~HasNode(ns, sourceId) \/ ~HasNode(ns, targetId)
  THEN Evaluated(1, Invalid(ErrNotFound))
  ELSE LET target == GetNode(ns, targetId) IN
    IF Includes(target.parentIds, sourceId)
    THEN Evaluated(2, Invalid(ErrEdgeExists))
    ELSE IF ~cfg.allowSelfLoops /\ sourceId = targetId
         THEN Evaluated(3, Invalid(ErrSelfLoop))
    ELSE IF cfg.maxParents > 0 /\ Len(target.parentIds) >= cfg.maxParents
         THEN Evaluated(5, Invalid(ErrMaxParents))
    ELSE DepthCheck(6, ns, sourceId, targetId, cfg)

validateEdge_MaxParentsOffByOne(ns, sourceId, targetId, cfg) ==
  IF ~HasNode(ns, sourceId) \/ ~HasNode(ns, targetId)
  THEN Evaluated(1, Invalid(ErrNotFound))
  ELSE LET target == GetNode(ns, targetId) IN
    IF Includes(target.parentIds, sourceId)
    THEN Evaluated(2, Invalid(ErrEdgeExists))
    ELSE IF ~cfg.allowSelfLoops /\ sourceId = targetId
         THEN Evaluated(3, Invalid(ErrSelfLoop))
    ELSE IF ~cfg.allowCycles /\ sourceId # targetId
            /\ wouldCreateCycle(ns, sourceId, targetId)
         THEN Evaluated(4, Invalid(ErrCycle))
    ELSE IF cfg.maxParents > 0 /\ Len(target.parentIds) > cfg.maxParents
         THEN Evaluated(5, Invalid(ErrMaxParents))
    ELSE DepthCheck(6, ns, sourceId, targetId, cfg)

(* the max-parents block moved in front of the cycle block *)
validateEdge_MaxParentsBeforeCycle(ns, sourceId, targetId, cfg) ==
  IF ~HasNode(ns, sourceId) \/ ~HasNode(ns, targetId)
  THEN Evaluated(1, Invalid(ErrNotFound))
  ELSE LET target == GetNode(ns, targetId) IN
    IF Includes(target.parentIds, sourceId)
    THEN Evaluated(2, Invalid(ErrEdgeExists))
    ELSE IF ~cfg.allowSelfLoops /\ sourceId = targetId
         THEN Evaluated(3, Invalid(ErrSelfLoop))
    ELSE IF cfg.maxParents > 0 /\ Len(target.parentIds) >= cfg.maxParents
         THEN Evaluated(4, Invalid(ErrMaxParents))
    ELSE IF ~cfg.allowCycles /\ sourceId # targetId
            /\ wouldCreateCycle(ns, sourceId, targetId)
         THEN Evaluated(5, Invalid(ErrCycle))
    ELSE DepthCheck(6, ns, sourceId, targetId, cfg)

validateEdge(ns, sourceId, targetId, cfg) ==
  IF ~HasNode(ns, sourceId) \/ ~HasNode(ns, targetId)
  THEN Evaluated(1, Invalid(ErrNotFound))
  ELSE LET target == GetNode(ns, targetId) IN
    IF Includes(target.parentIds, sourceId)
    THEN Evaluated(2, Invalid(ErrEdgeExists))
    ELSE IF ~cfg.allowSelfLoops /\ sourceId = targetId
         THEN Evaluated(3, Invalid(ErrSelfLoop))
    ELSE IF ~cfg.allowCycles /\ sourceId # targetId
            /\ wouldCreateCycle(ns, sourceId, targetId)
         THEN Evaluated(4, Invalid(ErrCycle))
    ELSE IF cfg.maxParents > 0 /\ Len(target.parentIds) >= cfg.maxParents
         THEN Evaluated(5, Invalid(ErrMaxParents))
    ELSE DepthCheck(6, ns, sourceId, targetId, cfg)

(* validateReparent: same node, both exist, cycle, max depth, custom *)
validateReparent(ns, childId, newParentId, cfg) ==
  IF childId = newParentId THEN Evaluated(1, Invalid(ErrSameNode))
  ELSE IF ~HasNode(ns, childId) \/ ~HasNode(ns, newParentId)
       THEN Evaluated(2, Invalid(ErrNodeNotFound))
  ELSE IF ~cfg.allowCycles /\ wouldCreateCycle(ns, newParentId, childId)
       THEN Evaluated(3, Invalid(ErrCircular))
  ELSE DepthCheck(4, ns, newParentId, childId, cfg)

----------------------------------------------------------------------------
(* HistoryService, over the service state                                  *)
(*   s = [nodes, undo, redo, dirty]                                        *)

LastN(seq, n) ==
  IF Len(seq) <= n THEN seq ELSE SubSeq(seq, Len(seq) - n + 1, Len(seq))

Front(seq) == SubSeq(seq, 1, Len(seq) - 1)

maxSizeOf(cfg) ==
  IF cfg.maxStackSize # 0 THEN cfg.maxStackSize ELSE DefaultMaxStackSize

HistorySaveState_KeepOldest(s, cfg) ==
  IF ~cfg.historyEnabled THEN s
  ELSE LET newStack == Append(s.undo, deepCloneNodes(s.nodes))
           maxSize == maxSizeOf(cfg)
       IN  [s EXCEPT !.undo = IF Len(newStack) > maxSize
                              THEN SubSeq(newStack, 1, maxSize) ELSE newStack,
                     !.redo = <<>>,
                     !.dirty = TRUE]

HistorySaveState(s, cfg) ==
  IF ~cfg.historyEnabled THEN s
  ELSE LET newStack == Append(s.undo, deepCloneNodes(s.nodes))
           maxSize == maxSizeOf(cfg)
       IN  [s EXCEPT !.undo = IF Len(newStack) > maxSize
                              THEN LastN(newStack, maxSize) ELSE newStack,
                     !.redo = <<>>,
                     !.dirty = TRUE]

(* What a service call returns and leaves behind: the service state s, ok   *)
(* (true, or a node / event object; false or null otherwise), threw (the   *)
(* call ended in an exception), and the link events it emitted, in order.  *)
Ok(s) ==
  [s |-> s, ok |-> TRUE, error |-> NoError, threw |-> FALSE, events |-> <<>>]
Failed(s, e) ==
  [s |-> s, ok |-> FALSE, error |-> e, threw |-> FALSE, events |-> <<>>]
Rejected(s, e) ==
  [s |-> s, ok |-> FALSE, error |-> e, threw |-> TRUE, events |-> <<>>]

(* _linkAdd.next / _linkRemove.next *)
LinkAdd(sourceId, targetId) ==
  [type |-> "linkAdd", sourceId |-> sourceId, targetId |-> targetId]
LinkRemove(sourceId, targetId) ==
  [type |-> "linkRemove", sourceId |-> sourceId, targetId |-> targetId]

Emitting(r, evs) == [r EXCEPT !.events = evs]

(* HistoryService.undo, the dirty flag left as it was *)
SvcUndo_KeepDirty(s) ==
  IF Len(s.undo) = 0 THEN Failed(s, "NothingToUndo")
  ELSE LET snapshot == deepCloneNodes(s.nodes)
           previousNodes == s.undo[Len(s.undo)]
           undo2 == Front(s.undo)
       IN  Ok([nodes |-> previousNodes,
               undo |-> undo2,
               redo |-> Append(s.redo, snapshot),
               dirty |-> s.dirty])

(* HistoryService.undo and FlexiGraphService.undo *)
SvcUndo(s) ==
  IF Len(s.undo) = 0 THEN Failed(s, "NothingToUndo")
  ELSE LET snapshot == deepCloneNodes(s.nodes)
           previousNodes == s.undo[Len(s.undo)]
           undo2 == Front(s.undo)
       IN  Ok([nodes |-> previousNodes,
               undo |-> undo2,
               redo |-> Append(s.redo, snapshot),
               dirty |-> IF Len(undo2) = 0 THEN FALSE ELSE s.dirty])

(* HistoryService.redo and FlexiGraphService.redo *)
SvcRedo(s) ==
  IF Len(s.redo) = 0 THEN Failed(s, "NothingToRedo")
  ELSE LET snapshot == deepCloneNodes(s.nodes)
           nextNodes == s.redo[Len(s.redo)]
       IN  Ok([nodes |-> nextNodes,
               undo |-> Append(s.undo, snapshot),
               redo |-> Front(s.redo),
               dirty |-> TRUE])

(* HistoryService.clear / markClean *)
HistoryClear(s) == [s EXCEPT !.undo = <<>>, !.redo = <<>>, !.dirty = FALSE]

----------------------------------------------------------------------------
(* FlexiGraphService *)

NodeFields == {"id", "parentIds", "data"}

(* nodes.map(n => n.id === id ? image of n : n); img[i] is the image of   *)
(* the i-th node                                                           *)
MapNodes(ns, id, img) ==
  [i \in DOMAIN ns |-> IF ns[i].id = id THEN img[i] ELSE ns[i]]

Without(seq, x) == LET keep(y) == y # x IN SelectSeq(seq, keep)

SvcAddNode_SaveFirst(s, cfg, node) ==
  LET s1 == HistorySaveState(s, cfg)
  IN  IF node.id # "" /\ HasNode(s.nodes, node.id) THEN Failed(s1, "DuplicateId")
      ELSE Ok([s1 EXCEPT !.nodes = Append(s1.nodes,
                 [id |-> IF node.id # "" THEN node.id
                         ELSE generateNodeId(s1.nodes),
                  parentIds |-> node.parentIds,
                  data |-> node.data])])

(* node.id: "" stands for no id given *)
SvcAddNode(s, cfg, node) ==
  IF node.id # "" /\ HasNode(s.nodes, node.id) THEN Failed(s, "DuplicateId")
  ELSE LET s1 == HistorySaveState(s, cfg)
           newNode == [id |-> IF node.id # "" THEN node.id
                              ELSE generateNodeId(s1.nodes),
                       parentIds |-> node.parentIds,
                       data |-> node.data]
       IN  Ok([s1 EXCEPT !.nodes = Append(s1.nodes, newNode)])

(* updates: a partial record over NodeFields, spread over the node *)
SvcUpdateNode(s, cfg, id, updates) ==
  IF ~HasNode(s.nodes, id) THEN Failed(s, "NodeNotFound")
  ELSE LET s1 == HistorySaveState(s, cfg)
           merge(n) == [f \in NodeFields |->
                          IF f \in DOMAIN updates THEN updates[f] ELSE n[f]]
           s2 == [s1 EXCEPT !.nodes = MapNodes(s1.nodes, id,
                    [i \in DOMAIN s1.nodes |-> merge(s1.nodes[i])])]
       IN  \* return this.getNode(id) || null, looked up after the update
           IF HasNode(s2.nodes, id) THEN Ok(s2) ELSE Failed(s2, "NodeNotFound")

(* removeNode that drops the node and leaves the other nodes as they are *)
SvcRemoveNode_KeepReferences(s, cfg, id) ==
  IF ~HasNode(s.nodes, id) THEN Failed(s, "NodeNotFound")
  ELSE LET s1 == HistorySaveState(s, cfg)
           keep(n) == n.id # id
       IN  Ok([s1 EXCEPT !.nodes = SelectSeq(s1.nodes, keep)])

SvcRemoveNode(s, cfg, id) ==
  IF ~HasNode(s.nodes, id) THEN Failed(s, "NodeNotFound")
  ELSE LET s1 == HistorySaveState(s, cfg)
           keep(n) == n.id # id
           filtered == SelectSeq(s1.nodes, keep)
           node == GetNode(s.nodes, id)
           asChild == [k \in DOMAIN node.parentIds |->
                         LinkRemove(node.parentIds[k], id)]
           asParent == Flatten([i \in DOMAIN filtered |->
                         IF Includes(filtered[i].parentIds, id)
                         THEN <<LinkRemove(id, filtered[i].id)>> ELSE <<>>])
       IN  Emitting(Ok([s1 EXCEPT !.nodes =
                 [i \in DOMAIN filtered |->
                    IF Includes(filtered[i].parentIds, id)
                    THEN [filtered[i] EXCEPT
                            !.parentIds = Without(filtered[i].parentIds, id)]
                    ELSE filtered[i]]]),
             asChild \o asParent)

(* addParent from the statement after the await to the end *)
AddParentCommit(s, cfg, childId, parentId, validate) ==
  IF (~HasNode(s.nodes, childId)
       \/ Includes(GetNode(s.nodes, childId).parentIds, parentId))
     /\ ~validate
  THEN Failed(s, "Redundant")
  ELSE LET s1 == HistorySaveState(s, cfg)
           add(n) == [n EXCEPT !.parentIds = Append(n.parentIds, parentId)]
       IN  Emitting(Ok([s1 EXCEPT !.nodes = MapNodes(s1.nodes, childId,
                 [i \in DOMAIN s1.nodes |-> add(s1.nodes[i])])]),
             <<LinkAdd(parentId, childId)>>)

SvcAddParent(s, cfg, childId, parentId, validate) ==
  LET validation == validateEdge(s.nodes, parentId, childId, cfg)
  IN  IF validate /\ validation.threw THEN Rejected(s, validation.error)
      ELSE IF validate /\ ~validation.isValid THEN Failed(s, validation.error)
      ELSE AddParentCommit(s, cfg, childId, parentId, validate)

SvcRemoveParent(s, cfg, childId, parentId) ==
  IF ~HasNode(s.nodes, childId)
     \/ ~Includes(GetNode(s.nodes, childId).parentIds, parentId)
  THEN Failed(s, "NoSuchLink")
  ELSE LET s1 == HistorySaveState(s, cfg)
           drop(n) == [n EXCEPT !.parentIds = Without(n.parentIds, parentId)]
       IN  Emitting(Ok([s1 EXCEPT !.nodes = MapNodes(s1.nodes, childId,
                 [i \in DOMAIN s1.nodes |-> drop(s1.nodes[i])])]),
             <<LinkRemove(parentId, childId)>>)

(* One turn of the validation loop of setParents: does the loop go on? *)
HasMoreThan(e) == e \in {ErrMaxParents, ErrCustomThrewMoreThan}

LoopPasses(res) ==
  res.isValid \/ res.error = ErrEdgeExists \/ HasMoreThan(res.error)

(* the check after the loop: the size of the new list against maxParents *)
NewCountOk(cfg, parentIds) ==
  ~(cfg.maxParents > 0 /\ Len(parentIds) > cfg.maxParents)

(* setParents from "Calculate and emit diffs" to the end; oldParentIds     *)
(* are the parents of the child object the call looked up when it began    *)
SetParentsCommit(s, cfg, childId, parentIds, oldParentIds) ==
  LET isNew(pid) == ~Includes(oldParentIds, pid)
      isGone(pid) == ~Includes(parentIds, pid)
      added == SelectSeq(parentIds, isNew)
      removed == SelectSeq(oldParentIds, isGone)
      s1 == HistorySaveState(s, cfg)
      put(n) == [n EXCEPT !.parentIds = parentIds]
  IN  Emitting(Ok([s1 EXCEPT !.nodes = MapNodes(s1.nodes, childId,
                 [i \in DOMAIN s1.nodes |-> put(s1.nodes[i])])]),
        [k \in DOMAIN added |-> LinkAdd(added[k], childId)]
          \o [k \in DOMAIN removed |-> LinkRemove(removed[k], childId)])

SvcSetParents(s, cfg, childId, parentIds, validate) ==
  IF ~HasNode(s.nodes, childId) THEN Failed(s, "NodeNotFound")
  ELSE LET res == [k \in DOMAIN parentIds |->
                     validateEdge(s.nodes, parentIds[k], childId, cfg)]
           stops == {k \in DOMAIN parentIds :
                       res[k].threw \/ ~LoopPasses(res[k])}
           first == CHOOSE k \in stops : \A j \in stops : k <= j
       IN  IF validate /\ stops # {}
           THEN IF res[first].threw THEN Rejected(s, res[first].error)
                ELSE Failed(s, res[first].error)
           ELSE IF validate /\ ~NewCountOk(cfg, parentIds)
                THEN Failed(s, ErrMaxParents)
                ELSE SetParentsCommit(s, cfg, childId, parentIds,
                                      GetNode(s.nodes, childId).parentIds)

SvcReparent(s, cfg, childId, newParentId) ==
  SvcSetParents(s, cfg, childId, <<newParentId>>, TRUE)

SvcDetachNode(s, cfg, nodeId) ==
  IF ~HasNode(s.nodes, nodeId) \/ Len(GetNode(s.nodes, nodeId).parentIds) = 0
  THEN Failed(s, "NothingToDetach")
  ELSE LET s1 == HistorySaveState(s, cfg)
           clear(n) == [n EXCEPT !.parentIds = <<>>]
           node == GetNode(s.nodes, nodeId)
       IN  Emitting(Ok([s1 EXCEPT !.nodes = MapNodes(s1.nodes, nodeId,
                 [i \in DOMAIN s1.nodes |-> clear(s1.nodes[i])])]),
             [k \in DOMAIN node.parentIds |->
                LinkRemove(node.parentIds[k], nodeId)])

(* setNodes(nodes) *)
SvcSetNodes(s, ns) == Ok([s EXCEPT !.nodes = deepCloneNodes(ns)])

(* markClean() *)
SvcMarkClean(s) == Ok(HistoryClear(s))

----------------------------------------------------------------------------
(* The state machine: inputs *)

NodeIds == {"a", "b", "c"}
GhostId == "ghost"          \* an id that names no node
AnyId == NodeIds \cup {GhostId}
NewIds == {"", "c"}         \* ids a caller gives addNode ("": none)
Payloads == {"plain", "date"}

SeqsUpTo(S, n) == UNION {[1..k -> S] : k \in 0..n}

ParentLists == SeqsUpTo(AnyId, MaxParentList)
ShortLists == SeqsUpTo(AnyId, 1)

N(id, pids) == [id |-> id, parentIds |-> pids, data |-> "plain"]

InitGraphs ==
  { <<N("a", <<>>), N("b", <<"a">>), N("c", <<"b">>)>>,
    <<N("a", <<>>), N("b", <<"a">>), N("c", <<"a">>)>>,
    <<N("a", <<>>), N("b", <<>>), N("c", <<"a", "b">>)>>,
    <<N("c", <<"b", "a">>), N("b", <<"a">>), N("a", <<>>)>>,
    <<N("a", <<>>), N("b", <<>>), N("c", <<>>)>>,
    <<N("a", <<>>), N("b", <<>>)>> }

DefaultConfig ==
  [historyEnabled |-> TRUE, maxStackSize |-> DefaultMaxStackSize,
   allowCycles |-> FALSE, allowSelfLoops |-> FALSE,
   maxParents |-> 0, maxDepth |-> 0, customValidator |-> "none"]

(* The structure of a collection, read off the parentIds lists *)
EdgeSet(ns) ==
  UNION {{<<ns[i].parentIds[k], ns[i].id>> : k \in DOMAIN ns[i].parentIds} :
           i \in DOMAIN ns}

RECURSIVE ReachFrom(_, _)
ReachFrom(E, S) ==
  LET next == S \cup {e[2] : e \in {d \in E : d[1] \in S}}
  IN  IF next = S THEN S ELSE ReachFrom(E, next)

(* v lies on a cycle: v is reached from one of its children *)
OnCycle(E, v) == v \in ReachFrom(E, {e[2] : e \in {d \in E : d[1] = v}})

Acyclic(ns) == \A e \in EdgeSet(ns) : ~OnCycle(EdgeSet(ns), e[1])

MaxFanIn(ns) == MaxOf([i \in DOMAIN ns |-> Len(ns[i].parentIds)])

RECURSIVE PathInto(_, _)
PathInto(E, v) ==
  LET ins == {e \in E : e[2] = v}
  IN  IF ins = {} THEN 0
      ELSE 1 + (CHOOSE m \in {PathInto(E, e[1]) : e \in ins} :
                  \A e \in ins : PathInto(E, e[1]) <= m)

(* number of edges on the longest path of an acyclic collection *)
LongestPath(ns) ==
  MaxOf([i \in DOMAIN ns |-> PathInto(EdgeSet(ns), ns[i].id)])

(* a start graph the policy admits *)
Admits(cfg, ns) ==
  /\ cfg.allowCycles \/ Acyclic(ns)
  /\ cfg.maxParents > 0 => MaxFanIn(ns) <= cfg.maxParents
  /\ cfg.maxDepth > 0 => Acyclic(ns) /\ LongestPath(ns) <= cfg.maxDepth

(* the arguments of a call: a node id, a list of ids, the validate flag *)
Args(id, ids, validate) == [id |-> id, ids |-> ids, validate |-> validate]

NoArgs == Args("", <<>>, TRUE)

NoCall ==
  [op |-> "none", kind |-> "none", args |-> NoArgs, ok |-> TRUE,
   error |-> NoError, threw |-> FALSE, events |-> <<>>, checks |-> 0,
   calls |-> 0, dropped |-> 0, chain |-> "none", pre |-> <<>>, post |-> <<>>,
   value |-> 0]

----------------------------------------------------------------------------
(* The view: the Cytoscape instance of the component, and                  *)
(* StableLayoutService.  A coordinate is a fraction [n, d] in lowest terms *)
(* (the centroid of step 4 divides), a position a record [x, y].           *)

Abs(i) == IF i < 0 THEN 0 - i ELSE i

RECURSIVE Gcd(_, _)
Gcd(a, b) == IF b = 0 THEN a ELSE Gcd(b, a % b)

Frac(n, d) ==
  LET g == Gcd(Abs(n), d) IN [n |-> n \div g, d |-> d \div g]

Plus(a, b) == Frac(a.n * b.d + b.n * a.d, a.d * b.d)

Minus(a, b) == Frac(a.n * b.d - b.n * a.d, a.d * b.d)

Over(a, count) == Frac(a.n, a.d * count)

Pt(x, y) == [x |-> Frac(x, 1), y |-> Frac(y, 1)]

Origin == Pt(0, 0)

(* the middle of the viewport, where step 3 puts a new root node *)
ViewCenters == {Pt(0, 0), Pt(40, 40)}

RECURSIVE SumOf(_, _)
SumOf(coords, S) ==
  IF S = {} THEN Frac(0, 1)
  ELSE LET e == CHOOSE e \in S : TRUE
       IN  Plus(coords[e], SumOf(coords, S \ {e}))

(* The elements of the view, as nodesToCytoscapeElements makes them from a *)
(* node list: a node per id, an edge per parent link between two of them,  *)
(* each node at the position Cytoscape gives a node that comes without one *)
IdsOf(ns) == {ns[i].id : i \in DOMAIN ns}

nodesToCytoscapeElements(ns) ==
  LET shown(id) == id \in IdsOf(ns)
  IN  [ids |-> IdsOf(ns),
       parents |-> [id \in IdsOf(ns) |->
                      SelectSeq(GetNode(ns, id).parentIds, shown)],
       pos |-> [id \in IdsOf(ns) |-> Origin],
       locked |-> {}]

(* the edges of the view, source to target *)
EdgesOf(view) ==
  UNION {{<<view.parents[id][k], id>> : k \in DOMAIN view.parents[id]} :
           id \in view.ids}

(* node.successors('node') and node.incomers('node') *)
successors(view, id) ==
  ReachFrom(EdgesOf(view),
            {e[2] : e \in {d \in EdgesOf(view) : d[1] = id}})

incomers(view, id) == view.parents[id]

(* node.position(p): a locked node stays where it is *)
SetPosition(view, id, p) ==
  IF id \in view.locked \/ id \notin view.ids THEN view
  ELSE [view EXCEPT !.pos[id] = p]

(* the positions an external layout algorithm run on the nodes of eles     *)
(* leaves: it assigns layout[id] to each node of eles that is not locked   *)
Layouts(eles, points) == [eles -> points]

RunLayoutOn(view, eles, layout) ==
  [view EXCEPT !.pos = [id \in view.ids |->
                          IF id \in eles /\ id \notin view.locked
                          THEN layout[id] ELSE view.pos[id]]]

(* StableLayoutService.cachePositions *)
cachePositions(view) == [id \in view.ids |-> view.pos[id]]

(* A pending caching timer (setTimeout of runFullLayout and of             *)
(* runIncrementalLayout).  The code keeps no handle on it; the model notes *)
(* whether its pass was requested while isFirstLayout() was true, and      *)
(* whether clearCache() has been called since it was set.                  *)
Timer(first, stale) == [first |-> first, stale |-> stale]

TimerKinds == {Timer(first, stale) : first \in BOOLEAN, stale \in BOOLEAN}

NoTimers == [timer \in TimerKinds |-> 0]

Pending(timers) ==
  timers[Timer(TRUE, FALSE)] + timers[Timer(FALSE, FALSE)]
    + timers[Timer(TRUE, TRUE)] + timers[Timer(FALSE, TRUE)]

SetTimer(timers, first) ==
  [timers EXCEPT ![Timer(first, FALSE)] = @ + 1]

(* clearCache() cancels no timer: every pending one stays pending *)
OutlivedReset(timers) ==
  [timer \in TimerKinds |->
     IF timer.stale
     THEN timers[Timer(timer.first, TRUE)] + timers[Timer(timer.first, FALSE)]
     ELSE 0]

NoCache == [id \in {} |-> Origin]

calculateCentroid(view, eles) ==
  IF eles = {} THEN Origin
  ELSE [x |-> Over(SumOf([id \in eles |-> view.pos[id].x], eles),
                   Cardinality(eles)),
        y |-> Over(SumOf([id \in eles |-> view.pos[id].y], eles),
                   Cardinality(eles))]

getAffectedSubtreeIds(view, directlyAffectedIds) ==
  directlyAffectedIds \cup
    UNION {successors(view, id) : id \in directlyAffectedIds \cap view.ids}

(* a change descriptor; newNodeId "" : none given *)
LayoutChange(type, affectedNodeIds, newNodeId) ==
  [type |-> type, affectedNodeIds |-> affectedNodeIds, newNodeId |-> newNodeId]

NoChange == LayoutChange("none", <<>>, "")

FullChange == LayoutChange("full", <<>>, "")

(* steps 1 to 5 of runIncrementalLayout, one after the other; center is    *)
(* the middle of the viewport, layout what the external algorithm assigns  *)
RestoreCached(view, cachedPositions) ==
  [view EXCEPT !.pos = [id \in view.ids |->
                          IF id \in DOMAIN cachedPositions
                               /\ id \notin view.locked
                          THEN cachedPositions[id] ELSE view.pos[id]]]

LockUnaffected(view, allAffectedIds) ==
  [view EXCEPT !.locked = view.locked \cup (view.ids \ allAffectedIds)]

PlaceNewNode(view, change, center) ==
  IF change.type # "add" \/ change.newNodeId = ""
       \/ change.newNodeId \notin view.ids
  THEN view
  ELSE LET parents == incomers(view, change.newNodeId) IN
       IF Len(parents) > 0
       THEN LET parent == parents[1]
                parentPos == view.pos[parent]
            IN  SetPosition(view, change.newNodeId,
                  [x |-> Plus(parentPos.x, Frac(NewNodeOffsetX, 1)),
                   y |-> parentPos.y])
       ELSE SetPosition(view, change.newNodeId,
              [x |-> center.x,
               y |-> Plus(center.y, Frac(NewRootOffsetY, 1))])

(* step 4 with the centroid shift applied to every node of the view *)
LayoutAffected_ShiftAll(view, allAffectedIds, layout) ==
  IF allAffectedIds = {} THEN view
  ELSE LET affectedEles == view.ids \cap allAffectedIds
           beforeCentroid == calculateCentroid(view, affectedEles)
           laidOut == RunLayoutOn(view, affectedEles, layout)
           afterCentroid == calculateCentroid(laidOut, affectedEles)
           deltaX == Minus(beforeCentroid.x, afterCentroid.x)
           deltaY == Minus(beforeCentroid.y, afterCentroid.y)
       IN  [laidOut EXCEPT !.pos =
              [id \in view.ids |->
                 [x |-> Plus(laidOut.pos[id].x, deltaX),
                  y |-> Plus(laidOut.pos[id].y, deltaY)]]]

LayoutAffected(view, allAffectedIds, layout) ==
  IF allAffectedIds = {} THEN view
  ELSE LET affectedEles == view.ids \cap allAffectedIds
           beforeCentroid == calculateCentroid(view, affectedEles)
           laidOut == RunLayoutOn(view, affectedEles, layout)
           afterCentroid == calculateCentroid(laidOut, affectedEles)
           deltaX == Minus(beforeCentroid.x, afterCentroid.x)
           deltaY == Minus(beforeCentroid.y, afterCentroid.y)
       IN  [laidOut EXCEPT !.pos =
              [id \in view.ids |->
                 IF id \in affectedEles /\ id \notin view.locked
                 THEN [x |-> Plus(laidOut.pos[id].x, deltaX),
                       y |-> Plus(laidOut.pos[id].y, deltaY)]
                 ELSE laidOut.pos[id]]]

Unlock(view) == [view EXCEPT !.locked = {}]

AffectedEles(view, change) ==
  view.ids \cap getAffectedSubtreeIds(view, {change.affectedNodeIds[k] :
                                               k \in DOMAIN change.affectedNodeIds})

runIncrementalLayout(view, change, cachedPositions, layout, center) ==
  LET affectedIds == {change.affectedNodeIds[k] :
                        k \in DOMAIN change.affectedNodeIds}
      allAffectedIds == getAffectedSubtreeIds(view, affectedIds)
  IN  Unlock(LayoutAffected(
               PlaceNewNode(
                 LockUnaffected(RestoreCached(view, cachedPositions),
                                allAffectedIds),
                 change, center),
               allAffectedIds, layout))

(* runFullLayout: the positions at the end of the layout run *)
runFullLayout(view, layout) == RunLayoutOn(view, view.ids, layout)

(* a pass that takes the full branch for an add as well *)
IsFullPass_AddIsFull(change, isFirst, cachedPositions) ==
  \/ isFirst
  \/ change.type \in {"none", "full", "add"}
  \/ DOMAIN cachedPositions = {}

(* the branch runStableLayout takes *)
IsFullPass(change, isFirst, cachedPositions) ==
  \/ isFirst
  \/ change.type = "none"
  \/ change.type = "full"
  \/ DOMAIN cachedPositions = {}

runStableLayout(view, change, isFirst, cachedPositions, layout, center) ==
  IF IsFullPass(change, isFirst, cachedPositions)
  THEN runFullLayout(view, layout)
  ELSE runIncrementalLayout(view, change, cachedPositions, layout, center)

(* what a layout pass was: its branch, its change and the cache it was     *)
(* given                                                                  *)
NoPass == [kind |-> "none", change |-> NoChange, cached |-> NoCache]

PassOf(change, isFirst, cachedPositions) ==
  IF IsFullPass(change, isFirst, cachedPositions)
  THEN [kind |-> "full", change |-> change, cached |-> cachedPositions]
  ELSE [kind |-> "incremental", change |-> change,
        cached |-> cachedPositions]

(* the nodes the external algorithm is run on in a pass *)
LaidOut(view, change, isFirst, cachedPositions) ==
  IF IsFullPass(change, isFirst, cachedPositions) THEN view.ids
  ELSE AffectedEles(view, change)

----------------------------------------------------------------------------
(* Initial states *)

(* FlexiGraphService.initialize(nodes, config) *)
InitStore(graphs, configs) ==
  /\ config \in configs
  /\ inputNodes \in {h \in graphs : Admits(config, h)}
  /\ nodes = deepCloneNodes(inputNodes)
  /\ collapsedNodeIds = {}
  /\ hiddenNodeIds = {}
  /\ collapseStates = [id \in {} |-> <<>>]
  /\ undoStack = <<>>
  /\ redoStack = <<>>
  /\ isDirty = FALSE
  /\ pending = <<>>
  /\ last = NoCall
  /\ steps = 0
  /\ reconfigs = 0

(* the service before the component has laid its view out *)
InitWith(graphs, configs) ==
  /\ InitStore(graphs, configs)
  /\ cy = nodesToCytoscapeElements(inputNodes)
  /\ positionCache = NoCache
  /\ isFirstLayout = TRUE
  /\ cacheTimers = NoTimers
  /\ pass = NoPass

(* initializeGraph(): the view is built from the [nodes] input, the        *)
(* service initialized, and runLayout() makes the first pass               *)
InitEditorWith(graphs, configs, points) ==
  /\ InitStore(graphs, configs)
  /\ \E layout \in Layouts(IdsOf(inputNodes), points) :
       cy = runFullLayout(nodesToCytoscapeElements(inputNodes), layout)
  /\ positionCache = NoCache
  /\ isFirstLayout = TRUE
  /\ cacheTimers = SetTimer(NoTimers, TRUE)
  /\ pass = PassOf(NoChange, TRUE, NoCache)

----------------------------------------------------------------------------
(* The state machine: one action per service call that runs to completion *)

Svc == [nodes |-> nodes, undo |-> undoStack, redo |-> redoStack,
        dirty |-> isDirty]

(* what the call made of the undo/redo round trip the last calls began *)
ChainAfter(op, kind, r) ==
  IF kind = "mutation" /\ r.ok /\ config.historyEnabled THEN "M"
  ELSE IF op = "undo" /\ r.ok /\ last.chain = "M" THEN "MU"
  ELSE IF op = "redo" /\ r.ok /\ last.chain = "MU" THEN "MUR"
  ELSE "none"

Install(r) ==
  /\ nodes' = r.s.nodes
  /\ undoStack' = r.s.undo
  /\ redoStack' = r.s.redo
  /\ isDirty' = r.s.dirty

Record(op, kind, args, r) ==
  LET chain == ChainAfter(op, kind, r)
  IN  last' = [op |-> op, kind |-> kind, args |-> args, ok |-> r.ok,
               error |-> r.error, threw |-> r.threw, events |-> r.events,
               checks |-> 0, calls |-> 0,
               dropped |-> IF kind = "mutation" /\ r.ok
                                /\ config.historyEnabled
                           THEN Len(undoStack) + 1 - Len(r.s.undo) ELSE 0,
               chain |-> chain,
               pre |-> IF chain = "M" THEN nodes
                       ELSE IF chain = "none" THEN <<>> ELSE last.pre,
               post |-> IF chain = "M" THEN r.s.nodes
                        ELSE IF chain = "none" THEN <<>> ELSE last.post,
               value |-> 0]

Invoke(op, kind, args, r, bound) ==
  /\ steps < bound
  /\ Install(r)
  /\ Record(op, kind, args, r)
  /\ steps' = steps + 1
  /\ UNCHANGED <<config, pending, reconfigs>>

(* a call the host makes on the service itself *)
Call(op, kind, args, r, bound) ==
  /\ Invoke(op, kind, args, r, bound)
  /\ UNCHANGED editorVars

AddNode(lists, bound) ==
  \E id \in NewIds, pids \in lists, d \in Payloads :
    /\ Len(nodes) < MaxNodes
    /\ Call("addNode", "mutation", Args(id, pids, TRUE),
            SvcAddNode(Svc, config, [id |-> id, parentIds |-> pids, data |-> d]),
            bound)

AddRootNode(bound) == AddNode({<<>>}, bound)

(* updates of one field, and of none *)
UpdatesOf(field, values) == {[f \in {field} |-> v] : v \in values}

UpdateInputs ==
  {<<>>} \cup UpdatesOf("id", NodeIds) \cup UpdatesOf("data", Payloads)
         \cup UpdatesOf("parentIds", ShortLists)

UpdateNode(updates, bound) ==
  \E id \in AnyId, u \in updates :
    Call("updateNode", "mutation", Args(id, <<>>, TRUE),
         SvcUpdateNode(Svc, config, id, u), bound)

RemoveNode(bound) ==
  \E id \in AnyId :
    Call("removeNode", "mutation", Args(id, <<>>, TRUE),
         SvcRemoveNode(Svc, config, id), bound)

AddParent(validates, bound) ==
  \E c \in AnyId, p \in AnyId, v \in validates :
    Call("addParent", "mutation", Args(c, <<p>>, v),
         SvcAddParent(Svc, config, c, p, v), bound)

RemoveParent(bound) ==
  \E c \in AnyId, p \in AnyId :
    Call("removeParent", "mutation", Args(c, <<p>>, TRUE),
         SvcRemoveParent(Svc, config, c, p), bound)

Reparent(bound) ==
  \E c \in AnyId, p \in AnyId :
    Call("reparent", "mutation", Args(c, <<p>>, TRUE),
         SvcReparent(Svc, config, c, p), bound)

SetParents(lists, validates, bound) ==
  \E c \in AnyId, pids \in lists, v \in validates :
    Call("setParents", "mutation", Args(c, pids, v),
         SvcSetParents(Svc, config, c, pids, v), bound)

DetachNode(bound) ==
  \E id \in AnyId :
    Call("detachNode", "mutation", Args(id, <<>>, TRUE),
         SvcDetachNode(Svc, config, id), bound)

Undo(bound) == Call("undo", "history", NoArgs, SvcUndo(Svc), bound)

Redo(bound) == Call("redo", "history", NoArgs, SvcRedo(Svc), bound)

SetNodes(bound) ==
  \E g \in InitGraphs :
    Call("setNodes", "restore", NoArgs, SvcSetNodes(Svc, g), bound)

MarkClean(bound) ==
  Call("markClean", "history", NoArgs, SvcMarkClean(Svc), bound)

----------------------------------------------------------------------------
(* The state machine: calls of ValidationService that a host makes         *)
(* directly.  They leave the service as it is; last holds the result.      *)

Query(op, args, v, bound) ==
  /\ steps < bound
  /\ last' = [NoCall EXCEPT !.op = op, !.kind = "query", !.args = args,
                            !.ok = v.isValid, !.error = v.error,
                            !.threw = v.threw, !.checks = v.checks,
                            !.calls = v.calls]
  /\ steps' = steps + 1
  /\ UNCHANGED <<nodes, undoStack, redoStack, isDirty, config, pending,
                 reconfigs, editorVars>>

(* validateEdge(nodes, sourceId, targetId, config) *)
ValidateEdge(bound) ==
  \E sourceId \in AnyId, targetId \in AnyId :
    Query("validateEdge", Args(targetId, <<sourceId>>, TRUE),
          validateEdge(nodes, sourceId, targetId, config), bound)

(* validateReparent(nodes, childId, newParentId, config) *)
ValidateReparent(bound) ==
  \E childId \in AnyId, newParentId \in AnyId :
    Query("validateReparent", Args(childId, <<newParentId>>, TRUE),
          validateReparent(nodes, childId, newParentId, config), bound)

----------------------------------------------------------------------------
(* The state machine: addParent and setParents as the async functions they *)
(* are.  A validated call runs to its first await (the validateEdge call,  *)
(* made on the collection of that moment), is suspended, and goes on in a  *)
(* later turn of the event loop; whatever the host runs in between finds   *)
(* the service as the suspended call left it.  pending holds the suspended *)
(* calls, oldest first; seen is the nodes argument validateEdge was given  *)
(* when the call began.                                                    *)

Suspend(call) ==
  /\ steps < MaxAsyncOps
  /\ Len(pending) < MaxPending
  /\ pending' = Append(pending, call)
  /\ steps' = steps + 1
  /\ UNCHANGED <<nodes, undoStack, redoStack, isDirty, config, last, reconfigs,
                 editorVars>>

BeginAddParent ==
  \E c \in AnyId, p \in AnyId :
    Suspend([op |-> "addParent", childId |-> c, parentIds |-> <<p>>, k |-> 1,
             res |-> validateEdge(nodes, p, c, config), seen |-> nodes])

(* setParents returns false before its first await when the child is       *)
(* missing, and commits without an await when the new list is empty        *)
BeginSetParents(lists) ==
  \E c \in AnyId, pids \in lists :
    IF ~HasNode(nodes, c) \/ pids = <<>>
    THEN Call("setParents", "mutation", Args(c, pids, TRUE),
              SvcSetParents(Svc, config, c, pids, TRUE), MaxAsyncOps)
    ELSE Suspend([op |-> "setParents", childId |-> c, parentIds |-> pids,
                  k |-> 1,
                  res |-> validateEdge(nodes, pids[1], c, config),
                  seen |-> nodes])

RemoveAt(seq, i) ==
  [j \in 1..(Len(seq) - 1) |-> IF j < i THEN seq[j] ELSE seq[j + 1]]

Complete(i, op, r) ==
  /\ Install(r)
  /\ Record(op, "mutation",
            Args(pending[i].childId, pending[i].parentIds, TRUE), r)
  /\ pending' = RemoveAt(pending, i)
  /\ UNCHANGED <<config, steps, reconfigs, editorVars>>

(* The order in which suspended calls go on: the order of their awaits,    *)
(* unless a custom validator is configured, whose promise settles when it  *)
(* likes.                                                                  *)
Resumable ==
  IF config.customValidator = "none" THEN DOMAIN pending \cap {1}
  ELSE DOMAIN pending

ResumeAddParent ==
  \E i \in Resumable :
    LET call == pending[i] IN
    /\ call.op = "addParent"
    /\ Complete(i, "addParent",
         IF call.res.threw THEN Rejected(Svc, call.res.error)
         ELSE IF ~call.res.isValid THEN Failed(Svc, call.res.error)
         ELSE AddParentCommit(Svc, config, call.childId, call.parentIds[1],
                              TRUE))

(* a turn of the validation loop of setParents ends: the call fails, or    *)
(* validates the next parent on the collection of this moment, or leaves   *)
(* the loop and commits                                                    *)
ResumeSetParents ==
  \E i \in Resumable :
    LET call == pending[i] IN
    /\ call.op = "setParents"
    /\ IF call.res.threw
       THEN Complete(i, "setParents", Rejected(Svc, call.res.error))
       ELSE IF ~LoopPasses(call.res)
       THEN Complete(i, "setParents", Failed(Svc, call.res.error))
       ELSE IF call.k < Len(call.parentIds)
       THEN /\ pending' =
                 [pending EXCEPT ![i] =
                    [call EXCEPT !.k = call.k + 1,
                                 !.res = validateEdge(nodes,
                                           call.parentIds[call.k + 1],
                                           call.childId, config)]]
            /\ UNCHANGED <<nodes, undoStack, redoStack, isDirty, config, last,
                           steps, reconfigs, editorVars>>
       ELSE IF ~NewCountOk(config, call.parentIds)
       THEN Complete(i, "setParents", Failed(Svc, ErrMaxParents))
       ELSE Complete(i, "setParents",
                     SetParentsCommit(Svc, config, call.childId,
                       call.parentIds,
                       GetNode(call.seen, call.childId).parentIds))

----------------------------------------------------------------------------
(* updateConfig(partial): a shallow merge, so a section that is given      *)
(* replaces the whole section; a field left out of it reads as unset.      *)
HistorySections ==
  {[historyEnabled |-> e, maxStackSize |-> m] : e \in BOOLEAN, m \in {0, 1}}

UpdateConfig(sections) ==
  \E section \in sections :
    /\ reconfigs < MaxReconfigs
    /\ config' = [f \in DOMAIN config |->
                    IF f \in DOMAIN section THEN section[f] ELSE config[f]]
    /\ config' # config
    /\ reconfigs' = reconfigs + 1
    /\ UNCHANGED <<nodes, undoStack, redoStack, isDirty, pending, last, steps,
                   editorVars>>

----------------------------------------------------------------------------
(* CollapseService.  Its state is the three signals; collapsedAt, the time *)
(* of the collapse, is read by nothing and is left out of a collapse       *)
(* state, which is the list of hidden descendants kept under the node id.  *)

Collapse == [collapsed |-> collapsedNodeIds, hidden |-> hiddenNodeIds,
             states |-> collapseStates]

MapSet(m, key, value) ==
  [k \in DOMAIN m \cup {key} |-> IF k = key THEN value ELSE m[k]]

MapDelete(m, key) == [k \in DOMAIN m \ {key} |-> m[k]]

(* what a CollapseService call returns and leaves behind *)
Done(c, ok) == [c |-> c, ok |-> ok, threw |-> FALSE]

Raised(c) == [c |-> c, ok |-> FALSE, threw |-> TRUE]

(* nodes.filter(node => node.parentIds?.includes(nodeId)) *)
findDirectChildren(nodeId, ns) ==
  LET isChild(node) == Includes(node.parentIds, nodeId)
  IN  SelectSeq(ns, isChild)

(* traverse, from the k-th child of the current node on; the ids pushed on *)
(* descendants so far are the visited set                                  *)
RECURSIVE traverse(_, _, _, _)
traverse(ns, children, k, descendants) ==
  IF k > Len(children) THEN descendants
  ELSE LET child == children[k] IN
       IF Includes(descendants, child.id)
       THEN traverse(ns, children, k + 1, descendants)
       ELSE traverse(ns, children, k + 1,
              traverse(ns, findDirectChildren(child.id, ns), 1,
                       Append(descendants, child.id)))

findAllDescendants(nodeId, ns) ==
  traverse(ns, findDirectChildren(nodeId, ns), 1, <<>>)

recalculateHiddenNodes(c, ns) ==
  [c EXCEPT !.hidden =
     UNION {{d[k] : k \in DOMAIN d} :
              d \in {findAllDescendants(id, ns) : id \in c.collapsed}}]

(* collapse that collapses a node without descendants too *)
collapse_LeafToo(c, nodeId, ns) ==
  IF nodeId \in c.collapsed THEN Done(c, FALSE)
  ELSE LET descendants == findAllDescendants(nodeId, ns) IN
       Done(recalculateHiddenNodes(
              [c EXCEPT !.states = MapSet(c.states, nodeId, descendants),
                        !.collapsed = c.collapsed \cup {nodeId}], ns),
            TRUE)

collapse(c, nodeId, ns) ==
  IF nodeId \in c.collapsed THEN Done(c, FALSE)
  ELSE LET descendants == findAllDescendants(nodeId, ns) IN
       IF Len(descendants) = 0 THEN Done(c, FALSE)
       ELSE Done(recalculateHiddenNodes(
                   [c EXCEPT !.states = MapSet(c.states, nodeId, descendants),
                             !.collapsed = c.collapsed \cup {nodeId}], ns),
                 TRUE)

(* expand that takes the descendants recorded for the node out of the      *)
(* hidden set, where the source recalculates the set                       *)
expand_OwnDescendantsOnly(c, nodeId, ns) ==
  IF nodeId \notin c.collapsed THEN Done(c, FALSE)
  ELSE Done([c EXCEPT !.states = MapDelete(c.states, nodeId),
                      !.collapsed = c.collapsed \ {nodeId},
                      !.hidden = c.hidden \ {c.states[nodeId][k] :
                                               k \in DOMAIN c.states[nodeId]}],
            TRUE)

expand(c, nodeId, ns) ==
  IF nodeId \notin c.collapsed THEN Done(c, FALSE)
  ELSE Done(recalculateHiddenNodes(
              [c EXCEPT !.states = MapDelete(c.states, nodeId),
                        !.collapsed = c.collapsed \ {nodeId}], ns),
            TRUE)

toggle(c, nodeId, ns) ==
  IF nodeId \in c.collapsed THEN expand(c, nodeId, ns)
  ELSE collapse(c, nodeId, ns)

NoCollapse == [collapsed |-> {}, hidden |-> {}, states |-> [id \in {} |-> <<>>]]

expandAll(c, ns) == Done(NoCollapse, TRUE)

clear(c) == Done(NoCollapse, TRUE)

(* findAncestors of findCollapsedAncestors: there is no visited set, so on *)
(* a cycle above the node the recursion does not end; threw stands for the *)
(* RangeError it ends with.  path holds the ids the recursion is inside.   *)
RECURSIVE findAncestors(_, _, _, _)
findAncestors(ns, collapsedNodes, currentId, path) ==
  IF currentId \in path THEN [threw |-> TRUE, ancestors |-> <<>>]
  ELSE IF ~HasNode(ns, currentId) THEN [threw |-> FALSE, ancestors |-> <<>>]
  ELSE LET node == GetNode(ns, currentId)
           above == [k \in DOMAIN node.parentIds |->
                       findAncestors(ns, collapsedNodes, node.parentIds[k],
                                     path \cup {currentId})]
       IN  IF \E k \in DOMAIN above : above[k].threw
           THEN [threw |-> TRUE, ancestors |-> <<>>]
           ELSE [threw |-> FALSE,
                 ancestors |->
                   Flatten([k \in DOMAIN node.parentIds |->
                              (IF node.parentIds[k] \in collapsedNodes
                               THEN <<node.parentIds[k]>> ELSE <<>>)
                              \o above[k].ancestors])]

findCollapsedAncestors(c, nodeId, ns) ==
  findAncestors(ns, c.collapsed, nodeId, {})

(* for (const ancestorId of ancestorsToExpand) this.expand(ancestorId, nodes) *)
RECURSIVE ExpandEach(_, _, _)
ExpandEach(c, ancestorsToExpand, ns) ==
  IF ancestorsToExpand = <<>> THEN c
  ELSE ExpandEach(expand(c, Head(ancestorsToExpand), ns).c,
                  Tail(ancestorsToExpand), ns)

revealNode(c, nodeId, ns) ==
  IF ~HasNode(ns, nodeId) THEN Done(c, TRUE)
  ELSE LET found == findCollapsedAncestors(c, nodeId, ns) IN
       IF found.threw THEN Raised(c)
       ELSE Done(ExpandEach(c, found.ancestors, ns), TRUE)

(* the loop of restoreCollapseState over state.collapsedNodes *)
RECURSIVE RestoreEach(_, _)
RestoreEach(c, collapsedNodes) ==
  IF collapsedNodes = <<>> THEN c
  ELSE LET nodeState == Head(collapsedNodes) IN
       RestoreEach([c EXCEPT !.states = MapSet(c.states, nodeState.nodeId,
                                          nodeState.hiddenDescendantIds),
                             !.collapsed = c.collapsed \cup {nodeState.nodeId}],
                   Tail(collapsedNodes))

restoreCollapseState(c, state, ns) ==
  Done(recalculateHiddenNodes(
         RestoreEach([c EXCEPT !.states = [id \in {} |-> <<>>],
                               !.collapsed = {}], state),
         ns), TRUE)

onNodeDeleted(c, nodeId, ns) ==
  Done(recalculateHiddenNodes(
         IF nodeId \in c.collapsed
         THEN [c EXCEPT !.states = MapDelete(c.states, nodeId),
                        !.collapsed = c.collapsed \ {nodeId}]
         ELSE c, ns), TRUE)

canCollapse(c, nodeId, ns) ==
  IF nodeId \in c.collapsed THEN FALSE
  ELSE Len(findDirectChildren(nodeId, ns)) > 0

----------------------------------------------------------------------------
(* The state machine: calls of CollapseService, each given the node list   *)
(* ns of the caller                                                        *)

InstallCollapse(c) ==
  /\ collapsedNodeIds' = c.collapsed
  /\ hiddenNodeIds' = c.hidden
  /\ collapseStates' = c.states

(* pre: the node list the call was given; dropped: the collapsed nodes it  *)
(* expanded                                                                *)
RecordCollapse(op, args, r, ns) ==
  last' = [NoCall EXCEPT !.op = op, !.kind = "collapse", !.args = args,
                         !.ok = r.ok, !.threw = r.threw,
                         !.error = IF r.threw THEN ErrRange ELSE NoError,
                         !.pre = ns,
                         !.dropped = Cardinality(collapsedNodeIds
                                                   \ r.c.collapsed)]

CollapseInvoke(op, args, r, ns, bound) ==
  /\ steps < bound
  /\ InstallCollapse(r.c)
  /\ RecordCollapse(op, args, r, ns)
  /\ steps' = steps + 1
  /\ UNCHANGED <<nodes, undoStack, redoStack, isDirty, config, pending,
                 reconfigs, inputNodes>>

(* a call made on the service itself *)
CollapseCall(op, args, r, ns, bound) ==
  /\ CollapseInvoke(op, args, r, ns, bound)
  /\ UNCHANGED viewVars

CollapseNode(ns, bound) ==
  \E nodeId \in AnyId :
    CollapseCall("collapse", Args(nodeId, <<>>, TRUE),
                 collapse(Collapse, nodeId, ns), ns, bound)

ExpandNode(ns, bound) ==
  \E nodeId \in AnyId :
    CollapseCall("expand", Args(nodeId, <<>>, TRUE),
                 expand(Collapse, nodeId, ns), ns, bound)

ToggleNode(ns, bound) ==
  \E nodeId \in AnyId :
    CollapseCall("toggle", Args(nodeId, <<>>, TRUE),
                 toggle(Collapse, nodeId, ns), ns, bound)

ExpandAll(ns, bound) ==
  CollapseCall("expandAll", NoArgs, expandAll(Collapse, ns), ns, bound)

RevealNode(ns, bound) ==
  \E nodeId \in AnyId :
    CollapseCall("revealNode", Args(nodeId, <<>>, TRUE),
                 revealNode(Collapse, nodeId, ns), ns, bound)

(* serialized states a host hands back: any ids, present or not *)
NodeStates == {[nodeId |-> id, hiddenDescendantIds |-> <<"c">>] : id \in AnyId}

RestoreCollapseState(ns, bound) ==
  \E state \in SeqsUpTo(NodeStates, MaxRestoreList) :
    CollapseCall("restoreCollapseState",
                 Args("", [k \in DOMAIN state |-> state[k].nodeId], TRUE),
                 restoreCollapseState(Collapse, state, ns), ns, bound)

ClearCollapse(bound) ==
  CollapseCall("clear", NoArgs, clear(Collapse), <<>>, bound)

OnNodeDeleted(ns, bound) ==
  \E nodeId \in AnyId :
    CollapseCall("onNodeDeleted", Args(nodeId, <<>>, TRUE),
                 onNodeDeleted(Collapse, nodeId, ns), ns, bound)

----------------------------------------------------------------------------
(* The state machine: layout passes.  A pass runs to its end and leaves a  *)
(* timer behind that caches the positions when it fires.                   *)

Pass(view, change, points) ==
  \E layout \in Layouts(LaidOut(view, change, isFirstLayout, positionCache),
                         points),
     center \in IF change.type = "add" THEN ViewCenters ELSE {Origin} :
    /\ cy' = runStableLayout(view, change, isFirstLayout, positionCache,
                             layout, center)
    /\ pass' = PassOf(change, isFirstLayout, positionCache)
    /\ cacheTimers' = SetTimer(cacheTimers, isFirstLayout)
    /\ UNCHANGED <<positionCache, isFirstLayout>>

(* syncCytoscapeWithService() and runStableLayout(change) at the end of a  *)
(* handler whose service call returned r; synced: the handler rebuilds the *)
(* view first                                                              *)
Relayout(r, synced, change, points) ==
  IF r.ok
  THEN Pass(IF synced THEN nodesToCytoscapeElements(r.s.nodes) ELSE cy,
            change, points)
  ELSE UNCHANGED viewVars

(* the caching timer of a pass fires: cachePositions(cy).  The delay of a  *)
(* timer is read from the layout configuration when it is set, so a timer  *)
(* set before clearCache() fires before or after one set later.            *)
CachePositions ==
  /\ \E timer \in TimerKinds :
       /\ cacheTimers[timer] > 0
       /\ cacheTimers' = [cacheTimers EXCEPT ![timer] = @ - 1]
  /\ positionCache' = cachePositions(cy)
  /\ isFirstLayout' = FALSE
  /\ UNCHANGED <<nodes, undoStack, redoStack, isDirty, config, pending, last,
                 steps, reconfigs, collapseVars, inputNodes, cy, pass>>

ViewCall(op, args, bound) ==
  /\ steps < bound
  /\ last' = [NoCall EXCEPT !.op = op, !.kind = "layout", !.args = args]
  /\ steps' = steps + 1
  /\ UNCHANGED <<nodes, undoStack, redoStack, isDirty, config, pending,
                 reconfigs, collapseVars, inputNodes>>

(* runLayout(change): the public method of the component *)
RunLayout(changes, points, bound) ==
  \E change \in changes :
    /\ ViewCall("runLayout", Args(change.newNodeId, change.affectedNodeIds,
                                  TRUE), bound)
    /\ Pass(cy, change, points)

(* forceFullLayout(): clearCache(), then a full pass *)
ForceFullLayout(points, bound) ==
  /\ ViewCall("forceFullLayout", NoArgs, bound)
  /\ \E layout \in Layouts(cy.ids, points) :
       /\ cy' = runFullLayout(cy, layout)
       /\ pass' = PassOf(FullChange, TRUE, NoCache)
  /\ positionCache' = NoCache
  /\ isFirstLayout' = TRUE
  /\ cacheTimers' = SetTimer(OutlivedReset(cacheTimers), TRUE)

----------------------------------------------------------------------------
(* The state machine: FlexiGraphComponent, the editor.  Its handlers act   *)
(* on a node of the view, which shows the nodes of the store; the node     *)
(* list they hand to CollapseService is this.nodes, the [nodes] input.     *)
(* points: the positions the layout algorithm of the host may assign.      *)

ViewIds == {nodes[i].id : i \in DOMAIN nodes}

(* handleNodeDrop(childNode, parentNode): addParent in combine mode,       *)
(* reparent otherwise                                                      *)
HandleNodeDrop(points, bound) ==
  \E childId \in ViewIds, parentId \in ViewIds, isCombine \in BOOLEAN :
    LET r == IF isCombine
             THEN SvcAddParent(Svc, config, childId, parentId, TRUE)
             ELSE SvcReparent(Svc, config, childId, parentId)
    IN  /\ Invoke("handleNodeDrop", "mutation",
                  Args(childId, <<parentId>>, TRUE), r, bound)
        /\ Relayout(r, TRUE,
                    LayoutChange("reparent", <<childId, parentId>>, ""),
                    points)
        /\ UNCHANGED <<collapseVars, inputNodes>>

(* confirmAddNode(): a new node, made a child of the node the dialog was   *)
(* opened on ("" : none), and removed again when addParent refuses         *)
confirmAddNode(s, cfg, parentId) ==
  LET added == SvcAddNode(s, cfg, [id |-> "", parentIds |-> <<>>,
                                   data |-> "plain"])
      newNode == added.s.nodes[Len(added.s.nodes)]
      linked == SvcAddParent(added.s, cfg, newNode.id, parentId, TRUE)
  IN  IF ~added.ok \/ parentId = "" THEN added
      ELSE IF linked.threw \/ linked.ok THEN linked
      ELSE [linked EXCEPT !.s = SvcRemoveNode(linked.s, cfg, newNode.id).s]

ConfirmAddNode(points, bound) ==
  \E parentId \in ViewIds \cup {""} :
    LET r == confirmAddNode(Svc, config, parentId)
    IN  /\ Len(nodes) < MaxNodes
        /\ Invoke("confirmAddNode", "mutation", Args("", <<parentId>>, TRUE),
                  r, bound)
        /\ Relayout(r, TRUE, FullChange, points)
        /\ UNCHANGED <<collapseVars, inputNodes>>

(* onDetachNode(node) *)
OnDetachNode(points, bound) ==
  \E id \in ViewIds :
    LET r == SvcDetachNode(Svc, config, id)
    IN  /\ Invoke("onDetachNode", "mutation", Args(id, <<>>, TRUE), r, bound)
        /\ Relayout(r, TRUE, FullChange, points)
        /\ UNCHANGED <<collapseVars, inputNodes>>

(* onDeleteNode(node): onNodeDeleted(node.id, this.nodes), then removeNode *)
OnDeleteNode(points, bound) ==
  \E id \in ViewIds :
    LET r == SvcRemoveNode(Svc, config, id)
    IN  /\ Invoke("onDeleteNode", "mutation", Args(id, <<>>, TRUE), r, bound)
        /\ InstallCollapse(onNodeDeleted(Collapse, id, inputNodes).c)
        /\ Relayout(r, TRUE, FullChange, points)
        /\ UNCHANGED inputNodes

(* onCollapseNode(node), onExpandNode(node), expandAll() *)
OnCollapseNode(bound) ==
  \E id \in ViewIds :
    CollapseCall("onCollapseNode", Args(id, <<>>, TRUE),
                 collapse(Collapse, id, inputNodes), inputNodes, bound)

OnExpandNode(points, bound) ==
  \E id \in ViewIds :
    LET r == expand(Collapse, id, inputNodes)
    IN  /\ CollapseInvoke("onExpandNode", Args(id, <<>>, TRUE), r,
                          inputNodes, bound)
        /\ Relayout(r, FALSE, FullChange, points)

EditorExpandAll(points, bound) ==
  LET r == expandAll(Collapse, inputNodes)
  IN  /\ CollapseInvoke("expandAll", NoArgs, r, inputNodes, bound)
      /\ Relayout(r, FALSE, FullChange, points)

(* undo(), redo() *)
EditorUndo(points, bound) ==
  LET r == SvcUndo(Svc)
  IN  /\ Invoke("undo", "history", NoArgs, r, bound)
      /\ Relayout(r, TRUE, FullChange, points)
      /\ UNCHANGED <<collapseVars, inputNodes>>

EditorRedo(points, bound) ==
  LET r == SvcRedo(Svc)
  IN  /\ Invoke("redo", "history", NoArgs, r, bound)
      /\ Relayout(r, TRUE, FullChange, points)
      /\ UNCHANGED <<collapseVars, inputNodes>>

(* getCollapseService().revealNode(nodeId, nodes): the host reveals a node *)
(* of the graph the store holds, or of the list it has bound to [nodes]    *)
HostRevealNode(bound) == RevealNode(nodes, bound)

HostRevealInput(bound) == RevealNode(inputNodes, bound)

(* ngOnChanges: the host binds another list to [nodes]; updateGraphData    *)
(* hands it to setNodes, rebuilds the view and runs runLayout()            *)
NodesChanged(points, bound) ==
  \E g \in InitGraphs :
    LET r == SvcSetNodes(Svc, g)
    IN  /\ g # inputNodes
        /\ inputNodes' = g
        /\ Invoke("ngOnChanges", "restore", NoArgs, r, bound)
        /\ Relayout(r, TRUE, NoChange, points)
        /\ UNCHANGED collapseVars

----------------------------------------------------------------------------
(* The traversals of graph.utils and of CollapseService as calls: each is  *)
(* a pure function of the collection it is given, so a behaviour applies   *)
(* one of them once.  threw: the call ended with a RangeError; value: the  *)
(* number it returned, or the length of the list it returned.              *)

Traversal(op, args, threw, found, value) ==
  /\ last = NoCall
  /\ last' = [NoCall EXCEPT !.op = op, !.kind = "traversal", !.args = args,
                            !.threw = threw, !.ok = found, !.value = value]
  /\ steps' = steps + 1
  /\ UNCHANGED <<nodes, undoStack, redoStack, isDirty, config, pending,
                 reconfigs, editorVars>>

WouldCreateCycle ==
  \E sourceId \in AnyId, targetId \in AnyId :
    Traversal("wouldCreateCycle", Args(targetId, <<sourceId>>, TRUE), FALSE,
              wouldCreateCycle(nodes, sourceId, targetId), 0)

GetNodeDepth ==
  \E nodeId \in AnyId :
    LET depth == getNodeDepth(nodes, nodeId)
    IN  Traversal("getNodeDepth", Args(nodeId, <<>>, TRUE), depth = Overflow,
                  TRUE, IF depth = Overflow THEN 0 ELSE depth)

GetNodeHeight ==
  \E nodeId \in AnyId :
    LET height == getNodeHeight(nodes, nodeId)
    IN  Traversal("getNodeHeight", Args(nodeId, <<>>, TRUE),
                  height = Overflow, TRUE,
                  IF height = Overflow THEN 0 ELSE height)

FindAllDescendants ==
  \E nodeId \in AnyId :
    Traversal("findAllDescendants", Args(nodeId, <<>>, TRUE), FALSE, TRUE,
              Len(findAllDescendants(nodeId, nodes)))

TopologicalSort ==
  /\ last = NoCall
  /\ last' = [NoCall EXCEPT !.op = "topologicalSort", !.kind = "traversal",
                            !.post = topologicalSort(nodes)]
  /\ steps' = steps + 1
  /\ UNCHANGED <<nodes, undoStack, redoStack, isDirty, config, pending,
                 reconfigs, editorVars>>

FindCollapsedAncestors ==
  \E nodeId \in AnyId, collapsed \in {{}, {"a", "b"}} :
    LET found == findCollapsedAncestors(
                   [Collapse EXCEPT !.collapsed = collapsed], nodeId, nodes)
    IN  Traversal("findCollapsedAncestors", Args(nodeId, <<>>, TRUE),
                  found.threw, TRUE, Len(found.ancestors))

----------------------------------------------------------------------------
(* Specifications *)

Cfg(stack, parents, depth, validator) ==
  [DefaultConfig EXCEPT !.maxStackSize = stack, !.maxParents = parents,
                        !.maxDepth = depth, !.customValidator = validator]

PolicyCfg(cycles, loops, parents, depth, validator) ==
  [Cfg(2, parents, depth, validator) EXCEPT !.allowCycles = cycles,
                                            !.allowSelfLoops = loops]

(* Every call of the service, each running to completion *)
Configs == {Cfg(2, 0, 0, "none"), Cfg(0, 1, 0, "rejectA")}

Init == InitWith(InitGraphs, Configs)

Next ==
  \/ AddNode(ShortLists, MaxOps)
  \/ UpdateNode(UpdateInputs, MaxOps)
  \/ RemoveNode(MaxOps)
  \/ AddParent(BOOLEAN, MaxOps)
  \/ RemoveParent(MaxOps)
  \/ Reparent(MaxOps)
  \/ SetParents(ShortLists, BOOLEAN, MaxOps)
  \/ DetachNode(MaxOps)
  \/ Undo(MaxOps)
  \/ Redo(MaxOps)
  \/ SetNodes(MaxOps)
  \/ MarkClean(MaxOps)

Spec == Init /\ [][Next]_vars

(* The validated calls under the default cycle policy, with a fixed        *)
(* configuration, each running to completion                               *)
PolicyConfigs ==
  {Cfg(2, 0, 0, "none"), Cfg(2, 1, 2, "rejectA"), Cfg(2, 2, 1, "none"),
   Cfg(2, 2, 2, "throwMoreThanA")}

(* Collections the policy is initialized with: a chain, two siblings and *)
(* two roots *)
PolicyGraphs ==
  { <<N("a", <<>>), N("b", <<"a">>), N("c", <<"b">>)>>,
    <<N("a", <<>>), N("b", <<"a">>), N("c", <<"a">>)>>,
    <<N("a", <<>>), N("b", <<>>)>> }

(* setParents is given every list over two ids, a list that names a node *)
(* below them and a list that names no node *)
PolicyLists ==
  SeqsUpTo({"a", "b"}, MaxParentList) \cup {<<"c">>, <<GhostId>>}

InitPolicy == InitWith(PolicyGraphs, PolicyConfigs)

NextPolicy ==
  \/ AddRootNode(MaxPolicyOps)
  \/ RemoveNode(MaxPolicyOps)
  \/ AddParent({TRUE}, MaxPolicyOps)
  \/ RemoveParent(MaxPolicyOps)
  \/ Reparent(MaxPolicyOps)
  \/ SetParents(PolicyLists, {TRUE}, MaxPolicyOps)
  \/ DetachNode(MaxPolicyOps)
  \/ Undo(MaxPolicyOps)
  \/ Redo(MaxPolicyOps)

SpecPolicy == InitPolicy /\ [][NextPolicy]_vars

(* The history engine: a few mutations, undo and redo, deep *)
HistoryConfigs ==
  {Cfg(0, 0, 0, "none"), Cfg(1, 0, 0, "none"), Cfg(2, 0, 0, "none")}

InitHistory ==
  InitWith({<<N("a", <<>>), N("b", <<"a">>)>>}, HistoryConfigs)

NextHistory ==
  \/ UpdateNode(UpdatesOf("data", Payloads), MaxHistoryOps)
  \/ RemoveNode(MaxHistoryOps)
  \/ Undo(MaxHistoryOps)
  \/ Redo(MaxHistoryOps)
  \/ MarkClean(MaxHistoryOps)

SpecHistory == InitHistory /\ [][NextHistory]_vars

(* The history engine with updateConfig *)
NextReconfig ==
  \/ NextHistory
  \/ UpdateConfig(HistorySections)

SpecReconfig == InitHistory /\ [][NextReconfig]_vars

(* The validated edge calls as async functions, with the calls a host can  *)
(* make while one of them is suspended                                     *)
AsyncConfigs == {Cfg(2, 0, 0, "none"), Cfg(2, 0, 0, "rejectA")}

InitAsync == InitWith(InitGraphs, AsyncConfigs)

NextAsync ==
  \/ BeginAddParent
  \/ BeginSetParents(ShortLists)
  \/ ResumeAddParent
  \/ ResumeSetParents
  \/ AddRootNode(MaxAsyncOps)
  \/ RemoveNode(MaxAsyncOps)
  \/ DetachNode(MaxAsyncOps)
  \/ Undo(MaxAsyncOps)
  \/ Redo(MaxAsyncOps)

SpecAsync == InitAsync /\ [][NextAsync]_vars

(* Edge requests only, under the default policy: addParent and reparent    *)
(* (setParents with one parent) calls that may be started while another is *)
(* suspended                                                               *)
ReparentLists == {<<p>> : p \in NodeIds}

InitOverlap == InitWith(InitGraphs, {Cfg(2, 0, 0, "none")})

NextOverlap ==
  \/ BeginAddParent
  \/ BeginSetParents(ReparentLists)
  \/ ResumeAddParent
  \/ ResumeSetParents

SpecOverlap == InitOverlap /\ [][NextOverlap]_vars

(* ValidationService on its own: one graph, one policy, and the queries a  *)
(* host makes of it                                                        *)
ValidateGraphs ==
  InitGraphs \cup { <<N("a", <<"b">>), N("b", <<"a">>), N("c", <<>>)>>,
                    <<N("a", <<"a">>), N("b", <<"a">>)>> }

ValidateConfigs ==
  {PolicyCfg(FALSE, FALSE, 0, 0, "none"),
   PolicyCfg(FALSE, FALSE, 1, 1, "rejectA"),
   PolicyCfg(FALSE, FALSE, 2, 2, "throwA"),
   PolicyCfg(FALSE, TRUE, 0, 0, "none"),
   PolicyCfg(FALSE, TRUE, 1, 0, "rejectA"),
   PolicyCfg(TRUE, FALSE, 0, 0, "none"),
   PolicyCfg(TRUE, TRUE, 0, 0, "none"),
   PolicyCfg(TRUE, TRUE, 1, 0, "throwA"),
   PolicyCfg(TRUE, TRUE, 0, 2, "rejectA")}

InitValidate == InitWith(ValidateGraphs, ValidateConfigs)

NextValidate ==
  \/ ValidateEdge(MaxQueries)
  \/ ValidateReparent(MaxQueries)

SpecValidate == InitValidate /\ [][NextValidate]_vars

(* CollapseService alone, on a graph that stays as it is: every call is    *)
(* given the node list of the store                                        *)
CollapseGraphs ==
  ValidateGraphs \cup
    { <<N("a", <<>>), N("b", <<"a">>), N("c", <<"a", "b">>)>>,
      <<N("a", <<>>), N("b", <<"a">>), N("c", <<"b">>), N("d", <<"c", "a">>)>> }

CollapseConfigs == {PolicyCfg(TRUE, TRUE, 0, 0, "none")}

InitCollapse == InitWith(CollapseGraphs, CollapseConfigs)

NextCollapse ==
  \/ CollapseNode(nodes, MaxCollapseOps)
  \/ ExpandNode(nodes, MaxCollapseOps)
  \/ ToggleNode(nodes, MaxCollapseOps)
  \/ ExpandAll(nodes, MaxCollapseOps)
  \/ RevealNode(nodes, MaxCollapseOps)
  \/ OnNodeDeleted(nodes, MaxCollapseOps)
  \/ RestoreCollapseState(nodes, MaxCollapseOps)
  \/ ClearCollapse(MaxCollapseOps)

SpecCollapse == InitCollapse /\ [][NextCollapse]_vars

(* The traversals, each on every collection of three nodes whose parent   *)
(* lists are short: chains, diamonds, forests, cycles, self-loops and      *)
(* parents that name no node                                               *)
TraversalLists ==
  {pids \in SeqsUpTo(NodeIds, MaxTraversalParents) :
     \A i \in DOMAIN pids, j \in DOMAIN pids : pids[i] = pids[j] => i = j}
    \cup {<<GhostId>>, <<"a", GhostId>>}

TraversalGraphs ==
  {<<N("a", pa), N("b", pb), N("c", pc)>> :
     pa \in TraversalLists, pb \in TraversalLists, pc \in TraversalLists}

InitTraversal == InitWith(TraversalGraphs, CollapseConfigs)

NextTraversal ==
  \/ WouldCreateCycle
  \/ GetNodeDepth
  \/ GetNodeHeight
  \/ FindAllDescendants
  \/ FindCollapsedAncestors
  \/ TopologicalSort

SpecTraversal == InitTraversal /\ [][NextTraversal]_vars

(* The editor: the handlers of FlexiGraphComponent, each running to its    *)
(* end, under the default policy, with a layout algorithm that puts every  *)
(* node it lays out at the same place                                      *)
EditorConfigs == {Cfg(2, 0, 0, "none")}

OnePoint == {Pt(100, 100)}

InitEditor == InitEditorWith(InitGraphs, EditorConfigs, OnePoint)

NextEditor ==
  \/ HandleNodeDrop(OnePoint, MaxEditorOps)
  \/ ConfirmAddNode(OnePoint, MaxEditorOps)
  \/ OnDetachNode(OnePoint, MaxEditorOps)
  \/ OnDeleteNode(OnePoint, MaxEditorOps)
  \/ OnCollapseNode(MaxEditorOps)
  \/ OnExpandNode(OnePoint, MaxEditorOps)
  \/ EditorExpandAll(OnePoint, MaxEditorOps)
  \/ EditorUndo(OnePoint, MaxEditorOps)
  \/ EditorRedo(OnePoint, MaxEditorOps)
  \/ NodesChanged(OnePoint, MaxEditorOps)
  \/ HostRevealNode(MaxEditorOps)
  \/ HostRevealInput(MaxEditorOps)
  \/ CachePositions

SpecEditor == InitEditor /\ [][NextEditor]_vars

(* The add-child dialog of the editor under a policy that rejects some     *)
(* parents: a depth limit of two and a custom predicate that rejects a     *)
(* as a parent                                                             *)
AddChildConfigs == {Cfg(2, 0, 2, "rejectA")}

InitAddChild == InitEditorWith(InitGraphs, AddChildConfigs, OnePoint)

NextAddChild ==
  \/ ConfirmAddNode(OnePoint, MaxEditorOps)
  \/ OnDeleteNode(OnePoint, MaxEditorOps)
  \/ EditorUndo(OnePoint, MaxEditorOps)
  \/ EditorRedo(OnePoint, MaxEditorOps)
  \/ CachePositions

SpecAddChild == InitAddChild /\ [][NextAddChild]_vars

(* The view: layout passes asked for by the host and by the handlers that  *)
(* change the graph, with a layout algorithm that may put a node at either *)
(* of two places (at one place in the full pass that follows a reset or a  *)
(* new node)                                                               *)
LayoutPoints == {Pt(100, 0), Pt(0, 100)}

LayoutChanges ==
  {NoChange, FullChange}
    \cup {LayoutChange("reparent", ids, "") : ids \in ShortLists}
    \cup {LayoutChange("remove", <<"b">>, "")}
    \cup {LayoutChange("add", <<"a">>, newNodeId) :
            newNodeId \in {"", "node-3"}}

LayoutGraphs == {<<N("a", <<>>), N("b", <<"a">>)>>}

InitLayout == InitEditorWith(LayoutGraphs, EditorConfigs, LayoutPoints)

NextLayout ==
  \/ RunLayout(LayoutChanges, LayoutPoints, MaxLayoutOps)
  \/ ForceFullLayout(OnePoint, MaxLayoutOps)
  \/ HandleNodeDrop(LayoutPoints, MaxLayoutOps)
  \/ ConfirmAddNode(OnePoint, MaxLayoutOps)
  \/ CachePositions

SpecLayout == InitLayout /\ [][NextLayout]_vars

----------------------------------------------------------------------------
(* Properties *)

(* C1 - Acyclicity: under the default policy, from an acyclic start graph,  *)
(* after any sequence of validated calls that each run to completion, no    *)
(* node is reached from itself, and wouldCreateCycle(p, c) is false for     *)
(* every edge p -> c that is present.                                       *)
C1_Acyclicity ==
  /\ Acyclic(nodes)
  /\ \A e \in EdgeSet(nodes) : ~wouldCreateCycle(nodes, e[1], e[2])

(* an edge request was turned down for closing a cycle, after an accepted  *)
(* call                                                                    *)
C1_Witness ==
  /\ last.op \in {"addParent", "reparent", "setParents"}
  /\ last.error = ErrCycle
  /\ steps = 2
  /\ undoStack # <<>>

(* C2 - No interleaving during validation: while an addParent, reparent   *)
(* or setParents call is suspended awaiting validation, no other mutation  *)
(* changes the node collection, so the call is applied to the collection   *)
(* it was validated against.                                               *)
C2_NoInterleaving == \A i \in DOMAIN pending : pending[i].seen = nodes

(* C3 - Invariant I2: every id in a parentIds list names a node of the     *)
(* collection, in every state the service calls reach.                     *)
C3_NoDanglingParents == \A e \in EdgeSet(nodes) : HasNode(nodes, e[1])

(* C4 - Invariant I3: no two nodes of the collection share an id, in every *)
(* state the service calls reach, and addNode with an id that is present   *)
(* returns null and adds nothing.                                          *)
C4_UniqueIds ==
  /\ \A i, j \in DOMAIN nodes : nodes[i].id = nodes[j].id => i = j
  /\ \A id \in NodeIds : HasNode(nodes, id) =>
       LET r == SvcAddNode(Svc, config,
                           [id |-> id, parentIds |-> <<>>, data |-> "plain"])
       IN  ~r.ok /\ r.s = Svc

(* C5 - Undo/redo round trip: with history enabled, a successful mutation  *)
(* M followed by undo() leaves the collection as it was before M, and M;   *)
(* undo(); redo() leaves it as it was right after M.                       *)
C5_UndoRedoRoundTrip ==
  /\ last.chain = "MU" => nodes = last.pre
  /\ last.chain = "MUR" => nodes = last.post

(* C6 - Redo invalidation: every successful ordinary mutation leaves the   *)
(* redo stack empty, whatever history configuration is in force.           *)
C6_RedoInvalidation ==
  (last.kind = "mutation" /\ last.ok) => redoStack = <<>>

(* C7 - Zero mutation on failure: a call that reports failure leaves the   *)
(* node collection, both stacks and the dirty flag as they were.           *)
C7_ZeroMutationOnFailure ==
  [][(steps' = steps + 1 /\ ~last'.ok)
       => UNCHANGED <<nodes, undoStack, redoStack, isDirty>>]_vars

(* a call failed on a service whose stacks and dirty flag were not in      *)
(* their start state                                                       *)
C7_Witness ==
  /\ ~last.ok
  /\ last.op \in {"addNode", "addParent", "setParents", "removeParent"}
  /\ undoStack # <<>>
  /\ isDirty

FanInBound == config.maxParents > 0 => MaxFanIn(nodes) <= config.maxParents

FullNodes ==
  {c \in NodeIds : /\ config.maxParents > 0
                   /\ HasNode(nodes, c)
                   /\ Len(GetNode(nodes, c).parentIds) >= config.maxParents}

EarlierChecksPass(c, p) ==
  /\ HasNode(nodes, p)
  /\ ~Includes(GetNode(nodes, c).parentIds, p)
  /\ p # c
  /\ p \notin ReachFrom(EdgeSet(nodes), {c})

C10_DepthBound ==
  config.maxDepth > 0 => LongestPath(nodes) <= config.maxDepth

(* C11 - Validation order: validateEdge evaluates (1) both nodes exist,    *)
(* (2) edge not present, (3) self-loop policy, (4) cycle policy, (5) max   *)
(* parents, (6) max depth, (7) custom predicate, in this order, returns    *)
(* the reason of the first check that fails and evaluates no check after   *)
(* it; the custom predicate is invoked only when checks 1 to 6 pass.       *)
PathOutOf(E, v) == PathInto({<<e[2], e[1]>> : e \in E}, v)

CheckFails(k, ns, s, t, cfg) ==
  LET E == EdgeSet(ns) IN
  CASE k = 1 -> ~(HasNode(ns, s) /\ HasNode(ns, t))
    [] k = 2 -> <<s, t>> \in E
    [] k = 3 -> s = t /\ ~cfg.allowSelfLoops
    [] k = 4 -> s # t /\ ~cfg.allowCycles /\ s \in ReachFrom(E, {t})
    [] k = 5 -> /\ cfg.maxParents > 0
                /\ Cardinality({e \in E : e[2] = t}) >= cfg.maxParents
    [] k = 6 -> /\ cfg.maxDepth > 0
                /\ PathInto(E, s) + 1 + PathOutOf(E, t) > cfg.maxDepth
    [] OTHER -> /\ cfg.customValidator # "none"
                /\ customValidator(cfg.customValidator, s, t) # "accept"

RECURSIVE FirstFailing(_, _, _, _, _)
FirstFailing(k, ns, s, t, cfg) ==
  IF k > 7 THEN 0
  ELSE IF CheckFails(k, ns, s, t, cfg) THEN k
  ELSE FirstFailing(k + 1, ns, s, t, cfg)

ReasonOf(k, cfg, s, t) ==
  CASE k = 1 -> ErrNotFound
    [] k = 2 -> ErrEdgeExists
    [] k = 3 -> ErrSelfLoop
    [] k = 4 -> ErrCycle
    [] k = 5 -> ErrMaxParents
    [] k = 6 -> ErrMaxDepth
    [] OTHER -> IF customValidator(cfg.customValidator, s, t) = "reject"
                THEN ErrCustomFailed ELSE ErrCustomThrew

C11_ValidationOrder ==
  last.op = "validateEdge" =>
    LET s == last.args.ids[1]
        t == last.args.id
        k == FirstFailing(1, nodes, s, t, config)
    IN  /\ ~last.threw
        /\ last.ok <=> k = 0
        /\ k # 0 => last.error = ReasonOf(k, config, s, t) /\ last.checks = k
        /\ last.calls = IF k \in {0, 7} /\ config.customValidator # "none"
                        THEN 1 ELSE 0

(* validateEdge stopped at the cycle check on an edge that the max-parents *)
(* check and the custom predicate would have turned down as well           *)
C11_Witness ==
  /\ last.op = "validateEdge"
  /\ last.error = ErrCycle
  /\ last.checks = 4
  /\ last.calls = 0
  /\ CheckFails(5, nodes, last.args.ids[1], last.args.id, config)
  /\ config.customValidator # "none"

(* C12 - Self-loop policy: for an existing node n that is not its own      *)
(* parent, validateEdge(n, n) and validateReparent(n, n) are rejected      *)
(* exactly when allowSelfLoops is false, whatever allowCycles is (stated   *)
(* for a policy without max-parents, max-depth and custom predicate).      *)
C12_SelfLoopPolicy ==
  ( /\ last.op \in {"validateEdge", "validateReparent"}
    /\ last.args.ids = <<last.args.id>>
    /\ HasNode(nodes, last.args.id)
    /\ <<last.args.id, last.args.id>> \notin EdgeSet(nodes)
    /\ config.maxParents = 0 /\ config.maxDepth = 0
    /\ config.customValidator = "none" )
  => (last.ok <=> config.allowSelfLoops)

(* C13 - Custom predicate exception: when a validated addParent, reparent *)
(* or setParents call invokes the custom predicate and the predicate       *)
(* throws, the call returns false, no exception reaches the caller, and    *)
(* the node collection and both history stacks stay as they were, whatever *)
(* the thrown error is.                                                    *)
PredicateThrows(ns, cfg, childId, parentId) ==
  /\ validateEdge(ns, parentId, childId, cfg).calls = 1
  /\ customValidator(cfg.customValidator, parentId, childId)
       \in {"throw", "throwMoreThan"}

C13_CustomPredicateException ==
  [][( /\ steps' = steps + 1
       /\ last'.op \in {"addParent", "reparent", "setParents"}
       /\ last'.args.validate
       /\ \E k \in DOMAIN last'.args.ids :
            PredicateThrows(nodes, config, last'.args.id, last'.args.ids[k]) )
     => ( /\ ~last'.ok
          /\ ~last'.threw
          /\ UNCHANGED <<nodes, undoStack, redoStack>> )]_vars

(* C14 - Parent lists are sets: under the default policy no parentIds list *)
(* holds the same id twice and no node lists its own id, after any         *)
(* sequence of validated addParent, setParents, reparent, addNode, undo    *)
(* and redo.                                                               *)
C14_ParentListsAreSets ==
  \A i \in DOMAIN nodes :
    LET pids == nodes[i].parentIds
    IN  /\ \A j, k \in DOMAIN pids : pids[j] = pids[k] => j = k
        /\ ~Includes(pids, nodes[i].id)

(* C15 - setParents notifications: a successful setParents(child, new)     *)
(* emits exactly one linkAdd for each parent in new that was not a parent  *)
(* before, exactly one linkRemove for each previous parent absent from     *)
(* new, nothing for a parent that is kept, and every linkAdd before any    *)
(* linkRemove.                                                             *)
Elems(seq) == {seq[k] : k \in DOMAIN seq}

Count(seq, x) == Cardinality({k \in DOMAIN seq : seq[k] = x})

C15_SetParentsNotifications ==
  [][( /\ steps' = steps + 1
       /\ last'.op \in {"setParents", "reparent"}
       /\ last'.ok )
     => LET c == last'.args.id
            old == Elems(GetNode(nodes, c).parentIds)
            new == Elems(last'.args.ids)
            ev == last'.events
        IN  /\ \A p \in new \ old : Count(ev, LinkAdd(p, c)) = 1
            /\ \A p \in old \ new : Count(ev, LinkRemove(p, c)) = 1
            /\ \A k \in DOMAIN ev :
                 \/ \E p \in new \ old : ev[k] = LinkAdd(p, c)
                 \/ \E p \in old \ new : ev[k] = LinkRemove(p, c)
            /\ \A j, k \in DOMAIN ev :
                 (ev[j].type = "linkRemove" /\ ev[k].type = "linkAdd")
                   => k < j]_vars

(* the descendants of a node, from scratch: what is reached from its      *)
(* children along the parent links of the collection                      *)
DescendantsOf(ns, id) ==
  ReachFrom(EdgeSet(ns), {e[2] : e \in {d \in EdgeSet(ns) : d[1] = id}})

HiddenFromScratch(ns, collapsed) ==
  UNION {DescendantsOf(ns, id) : id \in collapsed}

(* C16 - Collapse/hide consistency on a given graph: after any sequence of *)
(* CollapseService calls (collapse, expand, toggle, expandAll, revealNode, *)
(* onNodeDeleted, restoreCollapseState, clear) made with the current node  *)
(* list, the hidden-id set is the union, over the collapsed ids, of their  *)
(* descendant sets computed from scratch; so after one collapsed ancestor  *)
(* is expanded a node is hidden exactly when another collapsed node still  *)
(* has it as a descendant.                                                 *)
C16_CollapseHideConsistency ==
  hiddenNodeIds = HiddenFromScratch(nodes, collapsedNodeIds)

(* C16: a collapsed node has been expanded and one of its descendants is   *)
(* still hidden, by another collapsed node                                 *)
C16_Witness ==
  /\ last.op = "expand"
  /\ last.ok
  /\ \E n \in hiddenNodeIds : n \in DescendantsOf(nodes, last.args.id)

(* C17 - Collapse/hide consistency across structural change: in the       *)
(* editor, after any interleaving of collapse/expand with structural       *)
(* mutations (reparent, add parent, detach, delete, add child, undo,       *)
(* redo), the hidden set is the union of the descendants of the collapsed  *)
(* ids computed on the current graph of the store.                         *)
C17_HiddenFollowsStructure ==
  hiddenNodeIds = HiddenFromScratch(nodes, collapsedNodeIds)

(* C18 - Collapse state follows deletions: after any sequence of editor    *)
(* operations, the collapsed-id set and the hidden set hold only ids of    *)
(* nodes present in the graph of the store.                                *)
C18_CollapseFollowsDeletions ==
  collapsedNodeIds \cup hiddenNodeIds \subseteq ViewIds

(* C19 - revealNode makes the target visible: for any acyclic graph, any   *)
(* collapse state and any node t of the graph, after revealNode(t, nodes)  *)
(* returns, t is not in the hidden set.                                    *)
C19_RevealMakesVisible ==
  ( /\ last.op = "revealNode"
    /\ ~last.threw
    /\ Acyclic(last.pre)
    /\ HasNode(last.pre, last.args.id) )
  => last.args.id \notin hiddenNodeIds

C21_FirstLayoutPass ==
  [][ /\ (isFirstLayout /\ Pending(cacheTimers') = Pending(cacheTimers) + 1)
           => pass'.kind = "full"
      /\ (isFirstLayout /\ ~isFirstLayout')
           => \E timer \in TimerKinds :
                /\ timer.first
                /\ cacheTimers' = [cacheTimers EXCEPT ![timer] = @ - 1]
    ]_vars

(* C22 - Layout dispatch from Stable: a request made while isFirstLayout() *)
(* is false and the position cache is not empty runs the whole-graph       *)
(* layout when it carries no change or a change of kind full, and the      *)
(* incremental pass (the sub-layout over the expanded affected set only)   *)
(* when its change is of kind add, remove or reparent.                     *)
C22_LayoutDispatch ==
  [][ ( /\ ~isFirstLayout
        /\ DOMAIN positionCache # {}
        /\ Pending(cacheTimers') = Pending(cacheTimers) + 1 )
      => pass'.kind = IF pass'.change.type \in {"none", "full"}
                      THEN "full" ELSE "incremental"
    ]_vars

(* C22: a request was served from Stable: runLayout was given a reparent   *)
(* change and ran the incremental pass, on a cache that holds every node   *)
(* of the view                                                             *)
C22_Witness ==
  /\ pass.kind = "incremental"
  /\ pass.change.type = "reparent"
  /\ DOMAIN pass.cached = cy.ids
  /\ last.op = "runLayout"

(* C23 - Cache freshness: whenever an incremental pass starts, the         *)
(* position cache holds the positions the most recently executed pass left *)
(* in the view, also when the request follows the previous one at once.    *)
C23_CacheFreshness ==
  [][ ( /\ Pending(cacheTimers') = Pending(cacheTimers) + 1
        /\ pass'.kind = "incremental" )
      => positionCache = cachePositions(cy)
    ]_vars

(* C24 - Traversal termination: on every finite node collection, also a    *)
(* disconnected one and one that holds a cycle, each traversal returns: no *)
(* call of wouldCreateCycle, getNodeDepth, getNodeHeight,                  *)
(* findAllDescendants or findCollapsedAncestors recurses until the stack   *)
(* is exhausted.                                                           *)
C24_TraversalTermination == last.kind = "traversal" => ~last.threw

(* the collection without the nodes of id x and without x in any parent    *)
(* list, everything else as it was and in the same order                   *)
RemovedFrom(ns, x) ==
  LET keep(n) == n.id # x
      rest == SelectSeq(ns, keep)
  IN  [i \in DOMAIN rest |->
         [rest[i] EXCEPT !.parentIds = Without(rest[i].parentIds, x)]]

(* C25 - Invariant I2 on delete: removeNode(X) on an existing X removes X  *)
(* from the collection and from the parentIds of every remaining node in   *)
(* one mutation, with one history snapshot (the clone of the collection as *)
(* it was, on top of the snapshots there were), and leaves every other     *)
(* parentIds entry and every other node unchanged.                         *)
C25_DeleteRemovesReferences ==
  [][ ( /\ steps' = steps + 1
        /\ last'.op = "removeNode"
        /\ HasNode(nodes, last'.args.id) )
      => /\ last'.ok
         /\ nodes' = RemovedFrom(nodes, last'.args.id)
         /\ \A i \in DOMAIN nodes' :
              /\ nodes'[i].id # last'.args.id
              /\ ~Includes(nodes'[i].parentIds, last'.args.id)
         /\ config.historyEnabled
              => /\ Len(undoStack') <= Len(undoStack) + 1
                 /\ undoStack'[Len(undoStack')] = deepCloneNodes(nodes)
                 /\ \A k \in 1..(Len(undoStack') - 1) :
                      undoStack'[k]
                        = undoStack[k + Len(undoStack) + 1 - Len(undoStack')]
    ]_vars

(* C25: a removeNode took the node out of the parent list of a node that   *)
(* kept another parent                                                     *)
C25_Witness ==
  /\ last.op = "removeNode"
  /\ last.ok
  /\ \E i \in DOMAIN last.pre :
       /\ Includes(last.pre[i].parentIds, last.args.id)
       /\ Len(GetNode(nodes, last.pre[i].id).parentIds) > 0
       /\ Len(GetNode(nodes, last.pre[i].id).parentIds)
            < Len(last.pre[i].parentIds)

(* C26 - Cycle detection is exact: for every node collection (disconnected *)
(* ones and ones with parent ids that name no node included) and every     *)
(* pair (s, t), wouldCreateCycle(nodes, s, t) is true if and only if s = t *)
(* or s is reachable from t along parent-to-child edges.                   *)
C26_CycleDetectionExact ==
  last.op = "wouldCreateCycle" =>
    LET s == last.args.ids[1]
        t == last.args.id
    IN  last.ok <=> (s = t \/ s \in ReachFrom(EdgeSet(nodes), {t}))

(* C26: wouldCreateCycle returned true for a source that is below the      *)
(* target but is not one of its children, in a collection in which a       *)
(* parent id names no node                                                 *)
C26_Witness ==
  /\ last.op = "wouldCreateCycle"
  /\ last.ok
  /\ last.args.ids[1] # last.args.id
  /\ <<last.args.id, last.args.ids[1]>> \notin EdgeSet(nodes)
  /\ \E e \in EdgeSet(nodes) : e[1] = GhostId

(* C27 - The custom predicate guards every reparent: with a custom         *)
(* predicate configured, a reparent(child, newParent) or a validated       *)
(* setParents(child, parents) is applied only if the predicate returned    *)
(* true for (parent, child) for every parent of the new list that was not  *)
(* a parent of child before, whatever maxParents and maxDepth are.         *)
C27_CustomPredicateGuards ==
  ( /\ last.op \in {"reparent", "setParents"}
    /\ last.args.validate
    /\ last.ok
    /\ last.chain = "M"
    /\ config.customValidator # "none" )
  => \A k \in DOMAIN last.args.ids :
       Includes(GetNode(last.pre, last.args.id).parentIds, last.args.ids[k])
         \/ customValidator(config.customValidator, last.args.ids[k],
                            last.args.id) = "accept"

(* C28 - Dirty flag is stack-emptiness: in every reachable state of the    *)
(* history engine, after saveState, undo, redo, clear and markClean in any *)
(* order, with history enabled or disabled, isDirty is true exactly when   *)
(* the undo stack is not empty.                                            *)
C28_DirtyIsStackEmptiness == isDirty <=> (Len(undoStack) > 0)

(* an undo has emptied the undo stack in a service that was dirty, with    *)
(* history disabled since the snapshot was saved                           *)
C28_Witness ==
  /\ last.op = "undo"
  /\ last.ok
  /\ Len(undoStack) = 0
  /\ Len(redoStack) > 0
  /\ ~isDirty
  /\ ~config.historyEnabled

(* C29 - Collapse/expand rejections are no-ops: collapse(n) returns false  *)
(* and leaves the collapsed-id set, the hidden set and the per-node        *)
(* collapse states as they were when n is already collapsed or no node     *)
(* lists n as a parent; expand(n) returns false and leaves them as they    *)
(* were when n is not collapsed.                                           *)
C29_RejectionsAreNoOps ==
  [][ /\ ( /\ steps' = steps + 1
           /\ last'.op = "collapse"
           /\ \/ last'.args.id \in collapsedNodeIds
              \/ findDirectChildren(last'.args.id, last'.pre) = <<>> )
         => /\ ~last'.ok
            /\ UNCHANGED <<collapsedNodeIds, hiddenNodeIds, collapseStates>>
      /\ ( /\ steps' = steps + 1
           /\ last'.op = "expand"
           /\ last'.args.id \notin collapsedNodeIds )
         => /\ ~last'.ok
            /\ UNCHANGED <<collapsedNodeIds, hiddenNodeIds, collapseStates>>
    ]_vars

(* a collapse of a node that is already collapsed has been rejected, with  *)
(* the node still collapsed and its descendants still hidden               *)
C29_Witness ==
  /\ last.op = "collapse"
  /\ ~last.ok
  /\ ~last.threw
  /\ last.args.id \in collapsedNodeIds
  /\ last.args.id \in DOMAIN collapseStates
  /\ hiddenNodeIds # {}

(* C30 - Depth and height are longest paths: for every acyclic node        *)
(* collection and node n, getNodeDepth(n) is the number of edges on the    *)
(* longest path from a parentless node to n (0 for roots) and              *)
(* getNodeHeight(n) is the number of edges on the longest path from n to   *)
(* a childless node (0 for leaves).  A parent id that names no node counts *)
(* as a parentless node.                                                   *)
C30_DepthHeightLongestPath ==
  Acyclic(nodes) =>
    /\ last.op = "getNodeDepth"
         => /\ ~last.threw
            /\ last.value = PathInto(EdgeSet(nodes), last.args.id)
    /\ last.op = "getNodeHeight"
         => /\ ~last.threw
            /\ last.value = PathOutOf(EdgeSet(nodes), last.args.id)

(* the depth of a node with a parentless parent and a deeper parent, all   *)
(* parents naming nodes: the longest path has two edges, the shortest one  *)
C30_Witness ==
  /\ Acyclic(nodes)
  /\ \A e \in EdgeSet(nodes) : HasNode(nodes, e[1])
  /\ last.op = "getNodeDepth"
  /\ last.value = 2
  /\ \E e \in EdgeSet(nodes) :
       e[2] = last.args.id /\ PathInto(EdgeSet(nodes), e[1]) = 0

(* positions of a node id in a list of nodes *)
PlacesOf(seq, id) == {k \in DOMAIN seq : seq[k].id = id}

(* C31 - Topological order is complete and valid: for every acyclic node   *)
(* collection in which all parent ids name present nodes, topologicalSort  *)
(* returns each node exactly once and places every parent before each of   *)
(* its children.                                                           *)
C31_TopologicalOrder ==
  ( /\ last.op = "topologicalSort"
    /\ Acyclic(nodes)
    /\ \A e \in EdgeSet(nodes) : HasNode(nodes, e[1]) )
  => /\ Len(last.post) = Len(nodes)
     /\ \A i \in DOMAIN nodes :
          \E k \in DOMAIN last.post :
            last.post[k] = nodes[i] /\ PlacesOf(last.post, nodes[i].id) = {k}
     /\ \A e \in EdgeSet(nodes) :
          \A i \in PlacesOf(last.post, e[1]), j \in PlacesOf(last.post, e[2]) :
            i < j

(* a sort of a collection with a node of two parents, one of them a child  *)
(* of the other, that returned the nodes in another order than given       *)
C31_Witness ==
  /\ last.op = "topologicalSort"
  /\ Acyclic(nodes)
  /\ \A e \in EdgeSet(nodes) : HasNode(nodes, e[1])
  /\ Len(last.post) = 3
  /\ last.post # nodes
  /\ \E i \in DOMAIN nodes :
       /\ Len(nodes[i].parentIds) = 2
       /\ <<nodes[i].parentIds[1], nodes[i].parentIds[2]>> \in EdgeSet(nodes)

(* C32 - Explicit reset wins over pending timers: after clearCache() the   *)
(* stabilizer is Uninitialized with an empty cache, and stays so until the *)
(* caching step of a layout request made after the reset runs: the caching *)
(* timer of a pass that ran before clearCache() neither fills the cache    *)
(* nor ends the Uninitialized state.                                       *)
C32_ResetWinsOverTimers ==
  [][ /\ (steps' = steps + 1 /\ last'.op = "forceFullLayout")
           => isFirstLayout' /\ positionCache' = NoCache
      /\ \A timer \in TimerKinds :
           ( /\ timer.stale
             /\ cacheTimers[timer] > 0
             /\ cacheTimers' = [cacheTimers EXCEPT ![timer] = @ - 1] )
           => UNCHANGED <<positionCache, isFirstLayout>>
    ]_vars

(* no parentIds list of the collection holds an id twice *)
NoRepeatedParent(ns) ==
  \A i \in DOMAIN ns :
    \A j, k \in DOMAIN ns[i].parentIds :
      ns[i].parentIds[j] = ns[i].parentIds[k] => j = k

(* C33 - Overlapping edge requests stay safe: under the default policy,    *)
(* when addParent or reparent calls were started before an earlier one had *)
(* finished, then after all of them have completed the graph is acyclic    *)
(* and no parentIds list holds an id twice.                                *)
C33_OverlappingRequestsSafe ==
  pending = <<>> => Acyclic(nodes) /\ NoRepeatedParent(nodes)

(* C34 - canReparent predicts reparent: for every graph, policy and pair   *)
(* (child, newParent), canReparent(child, newParent), which answers with   *)
(* the verdict of validateReparent, is true if and only if                 *)
(* reparent(child, newParent) made in the same state succeeds.             *)
C34_CanReparentPredicts ==
  last.op = "validateReparent"
    => (last.ok <=> SvcReparent(Svc, config, last.args.id,
                                last.args.ids[1]).ok)

(* C35 - A rejected add-child leaves no trace: when confirmAddNode adds    *)
(* the node, addParent is rejected by validation and removeNode takes the  *)
(* node out again, the node collection, the undo stack and the redo stack  *)
(* end as they were before the attempt.                                    *)
C35_RejectedAddChildNoTrace ==
  [][ ( /\ steps' = steps + 1
        /\ last'.op = "confirmAddNode"
        /\ last'.args.ids # <<"">>
        /\ ~last'.ok
        /\ ~last'.threw )
      => UNCHANGED <<nodes, undoStack, redoStack>>
    ]_vars

(* what an observer holds after the link events ev, applied in order to    *)
(* the edge set E                                                          *)
RECURSIVE ApplyLinks(_, _)
ApplyLinks(E, ev) ==
  IF ev = <<>> THEN E
  ELSE LET edge == <<Head(ev).sourceId, Head(ev).targetId>>
       IN  ApplyLinks(IF Head(ev).type = "linkAdd" THEN E \cup {edge}
                      ELSE E \ {edge},
                      Tail(ev))

LinkOps ==
  {"addNode", "addParent", "removeParent", "setParents", "reparent",
   "detachNode", "removeNode", "undo", "redo"}

(* C36 - Link events mirror the edge set: an observer that starts from the *)
(* edge set at initialize() and applies every linkAdd and linkRemove event *)
(* in emission order always holds the current edge set of the store:       *)
(* each call of addNode, addParent, removeParent, setParents, reparent,    *)
(* detachNode, removeNode, undo and redo takes an observer that holds the  *)
(* edge set before the call to the edge set after it.                      *)
C36_LinkEventsMirrorEdges ==
  [][ (steps' = steps + 1 /\ last'.op \in LinkOps)
      => EdgeSet(nodes') = ApplyLinks(EdgeSet(nodes), last'.events)
    ]_vars

====
